---- MODULE Spec2Model ----
(***************************************************************************)
(* Procedural terrain core of the voxel formula viewer: the formula        *)
(* compiler (compileFormula), the evaluation context (Ctx), the windowed   *)
(* terrain refresh (updateTerrain) and the handlers that drive them.       *)
(*                                                                         *)
(* JavaScript numbers are modelled as exact rationals n/d together with    *)
(* NaN, +Infinity and -Infinity; negative zero is not distinguished from   *)
(* zero.  Formula text is a sequence of tokens; it is parsed by a          *)
(* recursive-descent parser for the fragment of the JavaScript expression  *)
(* grammar that the formulas use, and evaluated over the scope chain that  *)
(* `with(C){...}` inside `new Function('C','x','z',...)` gives it.         *)
(***************************************************************************)
EXTENDS Integers, Sequences, FiniteSets, TLC

\* ------------------------------------------------------------------------
\* Bounds of the model
\* ------------------------------------------------------------------------

\* The window is GRID x GRID columns of LAYERS voxels (200 x 200 x 4 in the
\* source); the model checks a scaled-down window.
GRID == 4

LAYERS == 3

\* The reference point controls.target moves in half units inside
\* [-MaxRefX, MaxRefX] x [-MaxRefZ, MaxRefZ] (in half units).
MaxRefX == 2

MaxRefZ == 2

\* A compiled function is invoked directly at the coordinates in
\* -MaxArg..MaxArg (specification of the engine).
MaxArg == 3

\* The heights probed are the multiples of 1/2 in -MaxHeight..MaxHeight
\* (specification of the classifier).
MaxHeight == 70

\* historyList keeps at most HistoryCap entries (50 in the source).
HistoryCap == 1

\* ------------------------------------------------------------------------
\* Numbers
\* ------------------------------------------------------------------------

AbsInt(a) == IF a < 0 THEN -a ELSE a

RECURSIVE Gcd(_, _)
Gcd(a, b) == IF b = 0 THEN a ELSE Gcd(b, a % b)

\* A value of the formula language.  t is the kind: "num" (the rational n/d,
\* d > 0, in lowest terms), "nan", "inf" (n = 1 or -1), "bool" (n = 1 or 0),
\* "fn" (the function member s of Ctx), "obj" (the object s), "str" (a string
\* produced by + on a non-number), "undef" (undefined), "opaque" (a number the model does not
\* compute: the result of a transcendental function) and "throw" (the
\* exception s).
Val(t, n, d, s) == [t |-> t, n |-> n, d |-> d, s |-> s]

Num(n, d) ==
    LET g == Gcd(AbsInt(n), AbsInt(d))
        sg == IF d < 0 THEN -1 ELSE 1
    IN  Val("num", (sg * n) \div g, (sg * d) \div g, "")

IntVal(n) == Val("num", n, 1, "")

NaN == Val("nan", 0, 1, "")

Infinity(sign) == Val("inf", sign, 1, "")

Bool(b) == Val("bool", IF b THEN 1 ELSE 0, 1, "")

Fn(name) == Val("fn", 0, 1, name)

Obj(name) == Val("obj", 0, 1, name)

Str == Val("str", 0, 1, "")

Undefined == Val("undef", 0, 1, "")

Opaque == Val("opaque", 0, 1, "")

Throw(name) == Val("throw", 0, 1, name)

Sign(a) == IF a < 0 THEN -1 ELSE IF a > 0 THEN 1 ELSE 0

\* Math.floor on a rational: \div rounds towards minus infinity.
FloorRat(v) == v.n \div v.d

\* ToNumber of the language: booleans are 0 and 1, every other non-number
\* (function, object, string of this model) is NaN.
ToNumber(v) ==
    CASE v.t \in {"num", "nan", "inf", "opaque"} -> v
      [] v.t = "bool" -> IntVal(v.n)
      [] OTHER -> NaN

\* ToBoolean.
Truthy(v) ==
    CASE v.t = "num" -> v.n # 0
      [] v.t = "nan" -> FALSE
      [] v.t = "undef" -> FALSE
      [] v.t = "bool" -> v.n = 1
      [] OTHER -> TRUE

NumAdd(a, b) ==
    CASE a.t = "nan" \/ b.t = "nan" -> NaN
      [] a.t = "opaque" \/ b.t = "opaque" -> Opaque
      [] a.t = "inf" /\ b.t = "inf" -> IF a.n = b.n THEN a ELSE NaN
      [] a.t = "inf" -> a
      [] b.t = "inf" -> b
      [] OTHER -> Num(a.n * b.d + b.n * a.d, a.d * b.d)

NumNeg(a) ==
    CASE a.t = "num" -> Num(-a.n, a.d)
      [] a.t = "inf" -> Infinity(-a.n)
      [] OTHER -> a

NumMul(a, b) ==
    CASE a.t = "nan" \/ b.t = "nan" -> NaN
      [] a.t = "opaque" \/ b.t = "opaque" -> Opaque
      [] a.t = "inf" \/ b.t = "inf" ->
            IF Sign(a.n) * Sign(b.n) = 0 THEN NaN
            ELSE Infinity(Sign(a.n) * Sign(b.n))
      [] OTHER -> Num(a.n * b.n, a.d * b.d)

NumDiv(a, b) ==
    CASE a.t = "nan" \/ b.t = "nan" -> NaN
      [] a.t = "opaque" \/ b.t = "opaque" -> Opaque
      [] a.t = "inf" /\ b.t = "inf" -> NaN
      [] a.t = "inf" -> Infinity(a.n * (IF b.n < 0 THEN -1 ELSE 1))
      [] b.t = "inf" -> IntVal(0)
      [] b.n = 0 -> IF a.n = 0 THEN NaN ELSE Infinity(Sign(a.n))
      [] OTHER -> Num(a.n * b.d, a.d * b.n)

\* The % operator: the remainder has the sign of the dividend.
NumRem(a, b) ==
    CASE a.t = "nan" \/ b.t = "nan" -> NaN
      [] a.t = "opaque" \/ b.t = "opaque" -> Opaque
      [] a.t = "inf" -> NaN
      [] b.t = "inf" -> a
      [] b.n = 0 -> NaN
      [] OTHER ->
            LET p == AbsInt(a.n) * b.d
                q == AbsInt(b.n) * a.d
            IN  Num(Sign(a.n) * (p % q), a.d * b.d)

\* a < b on numbers; any comparison with NaN is false.
NumLess(a, b) ==
    CASE a.t = "nan" \/ b.t = "nan" -> FALSE
      [] a.t = "inf" /\ b.t = "inf" -> a.n < b.n
      [] a.t = "inf" -> a.n < 0
      [] b.t = "inf" -> b.n > 0
      [] OTHER -> a.n * b.d < b.n * a.d

\* ------------------------------------------------------------------------
\* Noise
\* ------------------------------------------------------------------------

\* The table p of Noise.seed has 2^PermBits entries (2^8 in the source), and
\* Noise.perm twice as many.
PermBits == 2

\* new Uint8Array(256)
PermSize == 2 ^ PermBits

\* The remainder i % (m + 1) of the source language, which has the sign of i.
BitAnd_Remainder(i, m) == IF i < 0 THEN -((-i) % (m + 1)) ELSE i % (m + 1)

\* i & m for a mask m = 2^k - 1: the k low bits of the two's complement of i.
BitAnd(i, m) == i % (m + 1)

\* The values of Math.floor(Math.random()*256) over one run of Noise.seed:
\* one index of p for each i.
Draws == [0..(PermSize - 1) -> 0..(PermSize - 1)]

\* let t = p[i]; p[i] = p[r]; p[r] = t;
Swap(p, i, r) == [p EXCEPT ![i] = p[r], ![r] = p[i]]

\* The second loop of Noise.seed from i on, with draws[i] the index drawn
\* at i.
RECURSIVE Shuffle(_, _, _)
Shuffle(p, i, draws) ==
    IF i \notin DOMAIN p THEN p ELSE Shuffle(Swap(p, i, draws[i]), i + 1, draws)

\* Noise.seed(): the value of Noise.perm once it has returned.
seed(draws) ==
    LET size == Cardinality(DOMAIN draws)
        p == Shuffle([i \in DOMAIN draws |-> i], 0, draws)
    IN  [i \in 0..(2 * size - 1) |-> p[BitAnd(i, size - 1)]]

\* The runs of Noise.seed whose draws are all in 0..m.
DrawsUpTo(m) == [0..(PermSize - 1) -> 0..(IF m < PermSize THEN m ELSE PermSize - 1)]

\* The draws of a seed made by a handler of the window are in 0..MaxDraw
\* (Math.random() is below 1/256 there when MaxDraw is 0), and those of a
\* seed made between calls of the noise functions in 0..MaxNoiseDraw.
MaxDraw == 0

MaxNoiseDraw == 1

WindowDraws == DrawsUpTo(MaxDraw)

\* Noise.grad3
grad3 ==
    <<<<1, 1, 0>>, <<-1, 1, 0>>, <<1, -1, 0>>, <<-1, -1, 0>>, <<1, 0, 1>>, <<-1, 0, 1>>,
      <<1, 0, -1>>, <<-1, 0, -1>>, <<0, 1, 1>>, <<0, -1, 1>>, <<0, 1, -1>>, <<0, -1, -1>>>>

\* The 255 of `i & 255`: the largest index of the first half of a table.
Mask(table) == Cardinality(DOMAIN table) \div 2 - 1

\* this.perm[k], for a number k: an element of the typed array, or undefined
\* when k is not one of its indices.
PermAt(table, k) ==
    IF k.t = "num" /\ k.d = 1 /\ k.n \in DOMAIN table THEN IntVal(table[k.n]) ELSE Undefined

\* ii + this.perm[jj], the index of the outer read of this.perm[ii+this.perm[jj]]
PermIndex(ii, jj, table) == NumAdd(IntVal(ii), ToNumber(PermAt(table, IntVal(jj))))

\* this.perm[ii+this.perm[jj]] % 12
GradIndex(ii, jj, table) ==
    NumRem(ToNumber(PermAt(table, PermIndex(ii, jj, table))), IntVal(12))

\* The indices that one call of Noise.simplex reads this.perm at, in the
\* order of the reads of lines 35 to 37, and the gradient indices gi0, gi1
\* and gi2 that it computes from them.
Reads(ii, jj, i1, j1, table) ==
    [perm |-> <<IntVal(jj), PermIndex(ii, jj, table),
                IntVal(jj + j1), PermIndex(ii + i1, jj + j1, table),
                IntVal(jj + 1), PermIndex(ii + 1, jj + 1, table)>>,
     gi |-> <<GradIndex(ii, jj, table), GradIndex(ii + i1, jj + j1, table),
              GradIndex(ii + 1, jj + 1, table)>>]

\* A call of Noise.simplex(x, y) under the table `table`, for numbers x and
\* y: the number it returns when part is "value", and the indices it reads
\* when part is "reads".  The doubles of the source are fixed-point numbers
\* here, in units of 1/S: F2 = 0.3660, G2 = 0.2113, every product is
\* truncated to a multiple of 1/S, and the result is within 1/40 of the
\* double that the source computes.  The steps are those of the source, one
\* operator each:
\*   At:     s, then i and j
\*   Skew:   t, X0, Y0, then x0 and y0
\*   Off:    i1 and j1
\*   Cell:   ii and jj, then the reads, or the three corners and their sum
\*   Corner: t0, n0 of one corner; this.dot throws a TypeError on a
\*           gradient that this.grad3 does not hold (undefined)
\* When x or y is not a finite number, i and j are NaN or infinite, ii and
\* jj are 0, x0 > y0 is false and the sum is NaN.
simplexCall(x, y, table, part) ==
    LET S == 10000
        F2 == 3660
        G2 == 2113
        FMul(a, b) == (a * b) \div S
        Dot(g, a, b) == grad3[g + 1][1] * a + grad3[g + 1][2] * b
        N4(t2, d) == (((t2 * t2) \div 100) * d) \div 1000000
        N(t, g, a, b) ==
            IF t < 0 THEN <<TRUE, 0>>
            ELSE IF g.t = "num" /\ g.d = 1 /\ g.n \in 0..(Len(grad3) - 1)
                 THEN <<TRUE, N4(FMul(t, t), Dot(g.n, a, b))>>
                 ELSE <<FALSE, 0>>
        Corner(a, b, g) == N(S \div 2 - FMul(a, a) - FMul(b, b), g, a, b)
        Total(n0, n1, n2) ==
            IF n0[1] /\ n1[1] /\ n2[1] THEN Num(70 * (n0[2] + n1[2] + n2[2]), S)
            ELSE Throw("TypeError")
        Sum(ii, jj, x0, y0, i1, j1) ==
            Total(Corner(x0, y0, GradIndex(ii, jj, table)),
                  Corner(x0 - i1 * S + G2, y0 - j1 * S + G2,
                         GradIndex(ii + i1, jj + j1, table)),
                  Corner(x0 - S + 2 * G2, y0 - S + 2 * G2,
                         GradIndex(ii + 1, jj + 1, table)))
        Masked(ii, jj, x0, y0, i1, j1) ==
            IF part = "reads" THEN Reads(ii, jj, i1, j1, table)
            ELSE Sum(ii, jj, x0, y0, i1, j1)
        Cell(i, j, x0, y0, i1, j1) ==
            Masked(BitAnd(i, Mask(table)), BitAnd(j, Mask(table)), x0, y0, i1, j1)
        Off(i, j, x0, y0) ==
            IF x0 > y0 THEN Cell(i, j, x0, y0, 1, 0) ELSE Cell(i, j, x0, y0, 0, 1)
        Skew(fx, fy, i, j) ==
            Off(i, j, fx - (i * S - (i + j) * G2), fy - (j * S - (i + j) * G2))
        At(fx, fy, s) == Skew(fx, fy, (fx + s) \div S, (fy + s) \div S)
        Fixed(fx, fy) == At(fx, fy, FMul(fx + fy, F2))
    IN  CASE x.t = "num" /\ y.t = "num" -> Fixed((x.n * S) \div x.d, (y.n * S) \div y.d)
          [] part = "reads" -> Reads(0, 0, 0, 1, table)
          [] x.t = "opaque" \/ y.t = "opaque" -> Opaque
          [] OTHER -> NaN

\* Noise.simplex(x, y): the number returned.
simplex(x, y, table) == simplexCall(x, y, table, "value")

\* Noise.simplex(x, y): the indices read.
simplexReads(x, y, table) == simplexCall(x, y, table, "reads")

\* The loop of Ctx.octaved from i on: what total/max is when it ends, or the
\* exception that a call of Noise.simplex throws.
RECURSIVE octavedLoop(_, _, _, _, _, _, _, _, _, _)
octavedLoop(i, total, amp, freq, max, x, z, oct, per, table) ==
    IF ~NumLess(IntVal(i), ToNumber(IF Truthy(oct) THEN oct ELSE IntVal(4)))
    THEN NumDiv(total, max)
    ELSE LET Add(n) ==
                 IF n.t = "throw" THEN n
                 ELSE octavedLoop(i + 1, NumAdd(total, NumMul(n, amp)),
                                  NumMul(amp, ToNumber(IF Truthy(per) THEN per ELSE Num(1, 2))),
                                  NumMul(freq, IntVal(2)), NumAdd(max, amp), x, z, oct, per,
                                  table)
         IN  Add(simplex(NumMul(x, freq), NumMul(z, freq), table))

\* The loop runs four times whatever oct is.
octaved_FourOctaves(args, table) ==
    LET At(i) == IF i <= Len(args) THEN args[i] ELSE Undefined
    IN  octavedLoop(0, IntVal(0), IntVal(1), IntVal(1), IntVal(0), ToNumber(At(1)),
                    ToNumber(At(2)), IntVal(4), At(4), table)

\* Ctx.octaved(x, z, oct, per), called with the arguments args.
octaved(args, table) ==
    LET At(i) == IF i <= Len(args) THEN args[i] ELSE Undefined
    IN  octavedLoop(0, IntVal(0), IntVal(1), IntVal(1), IntVal(0), ToNumber(At(1)),
                    ToNumber(At(2)), At(3), At(4), table)

\* ------------------------------------------------------------------------
\* Hash.intHash
\* ------------------------------------------------------------------------

\* ToInt32 of the unsigned 32-bit number hi * 2^16 + lo, given by its two
\* 16-bit halves: the numbers from 2^31 on wrap to the negative ones.
ToInt32(hi, lo) == (IF hi >= 32768 THEN hi - 65536 ELSE hi) * 65536 + lo

\* Byte k of the two's complement of the integer a, byte 0 the lowest.
Byte(a, k) == (a \div (256 ^ k)) % 256

\* m ^ n on the low `width` bits of two naturals.
RECURSIVE XorNat(_, _, _)
XorNat(m, n, width) ==
    IF width = 0
    THEN 0
    ELSE ((m + n) % 2) + 2 * XorNat(m \div 2, n \div 2, width - 1)

\* a ^ b on 32-bit signed integers.
BitXor(a, b) ==
    LET X(k) == XorNat(Byte(a, k), Byte(b, k), 8)
    IN  ToInt32(X(3) * 256 + X(2), X(1) * 256 + X(0))

\* Math.imul(a, b): the low 32 bits of the product, as a signed integer. The
\* product is taken byte by byte, column c(k) holding the products of weight
\* 256^k and t(k) the column with the carry of the columns below it.
RECURSIVE imulColumn(_, _, _)
imulColumn(a, b, k) ==
    LET SumTo(j) == Byte(a, j) * Byte(b, k - j)
        c == SumTo(0) + (IF k >= 1 THEN SumTo(1) ELSE 0)
                 + (IF k >= 2 THEN SumTo(2) ELSE 0) + (IF k >= 3 THEN SumTo(3) ELSE 0)
    IN  IF k = 0 THEN c ELSE c + (imulColumn(a, b, k - 1) \div 256)

imul_DropCarry(a, b) ==
    LET R(k) == (Byte(a, 0) * Byte(b, k) + (IF k >= 1 THEN Byte(a, 1) * Byte(b, k - 1) ELSE 0)
                    + (IF k >= 2 THEN Byte(a, 2) * Byte(b, k - 2) ELSE 0)
                    + (IF k >= 3 THEN Byte(a, 3) * Byte(b, k - 3) ELSE 0)) % 256
    IN  ToInt32(R(3) * 256 + R(2), R(1) * 256 + R(0))

imul(a, b) ==
    LET R(k) == imulColumn(a, b, k) % 256
    IN  ToInt32(R(3) * 256 + R(2), R(1) * 256 + R(0))

\* 0x01000193
FnvPrime == 16777619

\* Hash.intHash(x, z) for integers x and z. The result is given by the two
\* 16-bit halves of h >>> 0: it is (hi * 2^16 + lo) / 4294967296.
intHash(x, z) ==
    LET Mixed(h) == [hi |-> (h \div 65536) % 65536, lo |-> h % 65536]
        MixZ(h) == Mixed(imul(BitXor(h, ToInt32((z \div 65536) % 65536, z % 65536)),
                              FnvPrime))
        MixX(h) == MixZ(imul(BitXor(h, ToInt32((x \div 65536) % 65536, x % 65536)),
                             FnvPrime))
    IN  MixX(ToInt32(33052, 40389))

\* ------------------------------------------------------------------------
\* The evaluation context Ctx
\* ------------------------------------------------------------------------

\* The function members of Ctx.
CtxFunctions ==
    {"sin", "cos", "tan", "abs", "floor", "ceil", "round", "sqrt", "pow", "mod",
     "max", "min", "csc", "sec", "sinh", "cosh", "tanh", "ln", "lg", "exp",
     "rand", "randnormal", "simplex", "perlin", "normal", "blended", "octaved"}

\* The constant members of Ctx (pi is also bound under its Greek letter).
CtxConstants == {"pi", "e", "phi"}

\* Every name that `with(C)` resolves to a member of Ctx.
CtxMembers == CtxFunctions \cup CtxConstants \cup {"_x", "_z"}

\* The names the function object binds itself: new Function('C', 'x', 'z', ..).
Parameters == {"C", "x", "z"}

\* Names outside Ctx and the parameters that the global scope of the page
\* binds; `with(C)` falls through to them.  innerWidth stands for the
\* properties of window.
HostGlobals == {"innerWidth"}

\* Argument i of a call, as a number; a missing argument is undefined.
Arg(args, i) == IF i <= Len(args) THEN ToNumber(args[i]) ELSE NaN

MathAbs(v) ==
    CASE v.t = "num" -> Num(AbsInt(v.n), v.d)
      [] v.t = "inf" -> Infinity(1)
      [] OTHER -> v

\* Truncation towards zero in the place of the floor.
MathFloor_Truncate(v) ==
    IF v.t = "num" THEN IntVal(Sign(v.n) * (AbsInt(v.n) \div v.d)) ELSE v

MathFloor(v) == IF v.t = "num" THEN IntVal(FloorRat(v)) ELSE v

MathCeil(v) == IF v.t = "num" THEN IntVal(-((-v.n) \div v.d)) ELSE v

\* Math.round rounds half up: floor(v + 1/2).
MathRound(v) ==
    IF v.t = "num" THEN IntVal((2 * v.n + v.d) \div (2 * v.d)) ELSE v

\* Math.max / Math.min of two numbers.
Max2(a, b) ==
    CASE a.t = "nan" \/ b.t = "nan" -> NaN
      [] a.t = "opaque" \/ b.t = "opaque" -> Opaque
      [] OTHER -> IF NumLess(a, b) THEN b ELSE a

Min2(a, b) ==
    CASE a.t = "nan" \/ b.t = "nan" -> NaN
      [] a.t = "opaque" \/ b.t = "opaque" -> Opaque
      [] OTHER -> IF NumLess(b, a) THEN b ELSE a

RECURSIVE MathMax(_, _)
MathMax(args, i) ==
    IF i > Len(args) THEN Infinity(-1)
    ELSE Max2(ToNumber(args[i]), MathMax(args, i + 1))

RECURSIVE MathMin(_, _)
MathMin(args, i) ==
    IF i > Len(args) THEN Infinity(1)
    ELSE Min2(ToNumber(args[i]), MathMin(args, i + 1))

\* Math.sqrt, exact on the squares of rationals.
MathSqrt(v) ==
    CASE v.t = "num" ->
            IF v.n < 0 THEN NaN
            ELSE IF \E r \in 0..v.n : r * r = v.n /\ \E q \in 1..v.d : q * q = v.d
                 THEN Num(CHOOSE r \in 0..v.n : r * r = v.n,
                          CHOOSE q \in 1..v.d : q * q = v.d)
                 ELSE Opaque
      [] v.t = "inf" -> IF v.n > 0 THEN v ELSE NaN
      [] OTHER -> v

RECURSIVE PowInt(_, _)
PowInt(a, k) == IF k = 0 THEN IntVal(1) ELSE NumMul(a, PowInt(a, k - 1))

\* Math.pow and the ** operator, exact for integer exponents.
MathPow(a, b) ==
    CASE b.t = "nan" -> NaN
      [] b.t = "num" /\ b.n = 0 -> IntVal(1)
      [] a.t = "nan" -> NaN
      [] a.t = "num" /\ b.t = "num" /\ b.d = 1 ->
            IF b.n > 0 THEN PowInt(a, b.n)
            ELSE NumDiv(IntVal(1), PowInt(a, -b.n))
      [] OTHER -> Opaque

\* The remainder of the language alone.
CtxMod_Remainder(x, y) == NumRem(x, y)

\* Ctx.mod: (x, y) => ((x % y) + y) % y
CtxMod(x, y) == NumRem(NumAdd(NumRem(x, y), y), y)

\* The call of the Ctx member `name` on evaluated arguments, with Noise.perm
\* holding table.  The members that call a transcendental function of Math
\* or that hash return a number that the model does not compute.
ApplyCtx(name, args, table) ==
    CASE name = "abs" -> MathAbs(Arg(args, 1))
      [] name = "floor" -> MathFloor(Arg(args, 1))
      [] name = "ceil" -> MathCeil(Arg(args, 1))
      [] name = "round" -> MathRound(Arg(args, 1))
      [] name = "sqrt" -> MathSqrt(Arg(args, 1))
      [] name = "pow" -> MathPow(Arg(args, 1), Arg(args, 2))
      [] name = "mod" -> CtxMod(Arg(args, 1), Arg(args, 2))
      [] name = "max" -> MathMax(args, 1)
      [] name = "min" -> MathMin(args, 1)
      [] name \in {"simplex", "perlin"} -> simplex(Arg(args, 1), Arg(args, 3), table)
      [] name = "octaved" -> octaved(args, table)
      [] OTHER -> Opaque

\* ------------------------------------------------------------------------
\* Formula text and its syntax tree
\* ------------------------------------------------------------------------

\* The numeric literals of the formulas, with their values.
NumberLiteral ==
    [s \in {"0", "0.05", "1", "2", "4", "5", "10", "15", "30", "100"} |->
        CASE s = "0" -> IntVal(0)
          [] s = "0.05" -> Num(1, 20)
          [] s = "1" -> IntVal(1)
          [] s = "2" -> IntVal(2)
          [] s = "4" -> IntVal(4)
          [] s = "5" -> IntVal(5)
          [] s = "10" -> IntVal(10)
          [] s = "15" -> IntVal(15)
          [] s = "30" -> IntVal(30)
          [] s = "100" -> IntVal(100)]

Punctuation ==
    {"(", ")", ",", "?", ":", "||", "&&", "<", ">", "+", "-", "*", "/", "%",
     "**", "^", ";", "{", "}"}

\* Reserved words are no identifiers.
Keywords == {"with", "return"}

IsNumber(tok) == tok \in DOMAIN NumberLiteral

IsIdentifier(tok) ==
    /\ tok \notin DOMAIN NumberLiteral
    /\ tok \notin Punctuation
    /\ tok \notin Keywords

\* A node of the syntax tree.  k is "lit" (the number v), "id" (the
\* identifier s), "un" and "bin" (the operator s on the operands a), "cond"
\* (a[1] ? a[2] : a[3]) or "call" (a[1] applied to the rest of a).  A node
\* of kind "null" is no tree: the value null of the source.
Node(k, s, v, a) == [k |-> k, s |-> s, v |-> v, a |-> a]

NULL == Node("null", "", IntVal(0), <<>>)

Lit(v) == Node("lit", "", v, <<>>)

Ident(name) == Node("id", name, IntVal(0), <<>>)

Unary(op, e) == Node("un", op, IntVal(0), <<e>>)

Binary(op, l, r) == Node("bin", op, IntVal(0), <<l, r>>)

Conditional(c, l, r) == Node("cond", "", IntVal(0), <<c, l, r>>)

Call(callee, args) == Node("call", "", IntVal(0), <<callee>> \o args)

\* The result of a parsing step: the tree parsed and the tokens left.
Parsed(ast, rest) == [ok |-> TRUE, ast |-> ast, rest |-> rest]

SyntaxError == [ok |-> FALSE, ast |-> NULL, rest |-> <<>>]

Next1(ts, tok) == ts # <<>> /\ Head(ts) = tok

\* The binary operators by precedence level, loosest first.
BinaryLevels == <<{"||"}, {"&&"}, {"<", ">"}, {"+", "-"}, {"*", "/", "%"}>>

RECURSIVE ParseExpr(_), ParseBin(_, _), ParseBinRest(_, _, _), ParseExp(_),
          ParseUnary(_), ParsePostfix(_), ParseCalls(_, _), ParseArgs(_, _),
          ParsePrimary(_)

\* Each step hands the result of the step before it to the continuation
\* that inspects it.

\* AssignmentExpression, here ConditionalExpression:
\*   LogicalOR [ ? AssignmentExpression : AssignmentExpression ]
ParseExpr(ts) ==
    LET Alternative(c, l, r) ==
            IF ~r.ok THEN SyntaxError
            ELSE Parsed(Conditional(c.ast, l.ast, r.ast), r.rest)
        Consequent(c, l) ==
            IF ~l.ok \/ ~Next1(l.rest, ":") THEN SyntaxError
            ELSE Alternative(c, l, ParseExpr(Tail(l.rest)))
        Condition(c) ==
            IF ~c.ok THEN SyntaxError
            ELSE IF ~Next1(c.rest, "?") THEN c
            ELSE Consequent(c, ParseExpr(Tail(c.rest)))
    IN  Condition(ParseBin(1, ts))

\* A left-associative chain of the operators of level lv.
ParseBin(lv, ts) ==
    LET Left(l) == IF l.ok THEN ParseBinRest(lv, l.ast, l.rest) ELSE SyntaxError
    IN  IF lv > Len(BinaryLevels) THEN ParseExp(ts)
        ELSE Left(ParseBin(lv + 1, ts))

ParseBinRest(lv, left, ts) ==
    LET Right(r) ==
            IF r.ok THEN ParseBinRest(lv, Binary(Head(ts), left, r.ast), r.rest)
            ELSE SyntaxError
    IN  IF ts = <<>> \/ Head(ts) \notin BinaryLevels[lv] THEN Parsed(left, ts)
        ELSE Right(ParseBin(lv + 1, Tail(ts)))

\* ExponentiationExpression: UnaryExpression, or
\* UpdateExpression ** ExponentiationExpression (a unary operand on the left
\* of ** is a syntax error).
ParseExp(ts) ==
    LET Signed(u) == IF u.ok /\ Next1(u.rest, "**") THEN SyntaxError ELSE u
        Power(b, e) ==
            IF e.ok THEN Parsed(Binary("**", b.ast, e.ast), e.rest) ELSE SyntaxError
        Base(b) ==
            IF ~b.ok THEN SyntaxError
            ELSE IF ~Next1(b.rest, "**") THEN b
            ELSE Power(b, ParseExp(Tail(b.rest)))
    IN  IF Next1(ts, "-") \/ Next1(ts, "+") THEN Signed(ParseUnary(ts))
        ELSE Base(ParsePostfix(ts))

ParseUnary(ts) ==
    LET Operand(u) ==
            IF u.ok THEN Parsed(Unary(Head(ts), u.ast), u.rest) ELSE SyntaxError
    IN  IF Next1(ts, "-") \/ Next1(ts, "+") THEN Operand(ParseUnary(Tail(ts)))
        ELSE ParsePostfix(ts)

\* CallExpression: a primary followed by any number of argument lists.
ParsePostfix(ts) ==
    LET Callee(p) == IF p.ok THEN ParseCalls(p.ast, p.rest) ELSE SyntaxError
    IN  Callee(ParsePrimary(ts))

ParseCalls(callee, ts) ==
    LET Applied(as) ==
            IF as.ok THEN ParseCalls(Call(callee, as.ast.a), as.rest) ELSE SyntaxError
    IN  IF ~Next1(ts, "(") THEN Parsed(callee, ts)
        ELSE IF Next1(Tail(ts), ")") THEN ParseCalls(Call(callee, <<>>), Tail(Tail(ts)))
        ELSE Applied(ParseArgs(<<>>, Tail(ts)))

\* A non-empty argument list up to and including its closing parenthesis;
\* the arguments are returned as the operands of a node.
ParseArgs(acc, ts) ==
    LET Argument(e) ==
            IF ~e.ok THEN SyntaxError
            ELSE IF Next1(e.rest, ",") THEN ParseArgs(Append(acc, e.ast), Tail(e.rest))
            ELSE IF Next1(e.rest, ")")
                 THEN Parsed(Node("args", "", IntVal(0), Append(acc, e.ast)), Tail(e.rest))
            ELSE SyntaxError
    IN  Argument(ParseExpr(ts))

ParsePrimary(ts) ==
    LET Parenthesized(e) ==
            IF e.ok /\ Next1(e.rest, ")") THEN Parsed(e.ast, Tail(e.rest))
            ELSE SyntaxError
    IN  IF ts = <<>> THEN SyntaxError
        ELSE IF IsNumber(Head(ts)) THEN Parsed(Lit(NumberLiteral[Head(ts)]), Tail(ts))
        ELSE IF IsIdentifier(Head(ts)) THEN Parsed(Ident(Head(ts)), Tail(ts))
        ELSE IF Head(ts) = "(" THEN Parenthesized(ParseExpr(Tail(ts)))
        ELSE SyntaxError

\* The body of the function that compileFormula builds:
\*   with(C){return <safeStr>;}
FunctionBody(safeStr) ==
    <<"with", "(", "C", ")", "{", "return">> \o safeStr \o <<";", "}">>

\* new Function('C', 'x', 'z', body): the body parses as one with statement
\* holding one return statement (`return;` for an empty text), or the
\* constructor throws a SyntaxError.
ParseFunctionBody(body) ==
    IF Len(body) < 6 \/ SubSeq(body, 1, 6) # <<"with", "(", "C", ")", "{", "return">>
    THEN SyntaxError
    ELSE IF SubSeq(body, 7, Len(body)) = <<";", "}">>
    THEN Parsed(Lit(Undefined), <<>>)
    ELSE LET Returned(e) ==
                 IF e.ok /\ e.rest = <<";", "}">> THEN Parsed(e.ast, <<>>)
                 ELSE SyntaxError
         IN  Returned(ParseExpr(SubSeq(body, 7, Len(body))))

\* str.replace(/\^/g, '**')
RECURSIVE ReplaceCaret(_)
ReplaceCaret(str) ==
    IF str = <<>> THEN <<>>
    ELSE <<IF Head(str) = "^" THEN "**" ELSE Head(str)>> \o ReplaceCaret(Tail(str))

\* ------------------------------------------------------------------------
\* Evaluation
\* ------------------------------------------------------------------------

\* The state outside the function and Ctx that an invocation can read:
\* window.innerWidth and Noise.perm.
Host(width, table) == [innerWidth |-> width, perm |-> table]

\* What an invocation f(C, x, z) reads: its arguments x and z, the fields
\* _x and _z of C = Ctx at the time of the call, and the state w = Host(..)
\* outside them.
Env(x, z, cx, cz, w) == [x |-> x, z |-> z, cx |-> cx, cz |-> cz, w |-> w]

\* The value of a member of Ctx.  pi and e are doubles that are no small
\* rationals: the model does not compute with them.
CtxValue(name, env) ==
    CASE name \in CtxFunctions -> Fn(name)
      [] name = "_x" -> IntVal(env.cx)
      [] name = "_z" -> IntVal(env.cz)
      [] name = "phi" -> Num(161803, 100000)
      [] OTHER -> Opaque

\* Identifier resolution inside with(C){...} of function(C, x, z): the
\* members of C first, then the parameters, then the global scope; a name
\* bound nowhere throws a ReferenceError.
Resolve(name, env) ==
    CASE name \in CtxMembers -> CtxValue(name, env)
      [] name = "C" -> Obj("Ctx")
      [] name = "x" -> IntVal(env.x)
      [] name = "z" -> IntVal(env.z)
      [] name \in HostGlobals -> IntVal(env.w.innerWidth)
      [] OTHER -> Throw("ReferenceError")

\* The operator + concatenates when an operand is no primitive number.
IsStringy(v) == v.t \in {"str", "fn", "obj"}

ApplyBinary(op, l, r) ==
    CASE op = "+" ->
            IF IsStringy(l) \/ IsStringy(r) THEN Str
            ELSE NumAdd(ToNumber(l), ToNumber(r))
      [] op = "-" -> NumAdd(ToNumber(l), NumNeg(ToNumber(r)))
      [] op = "*" -> NumMul(ToNumber(l), ToNumber(r))
      [] op = "/" -> NumDiv(ToNumber(l), ToNumber(r))
      [] op = "%" -> NumRem(ToNumber(l), ToNumber(r))
      [] op = "**" -> MathPow(ToNumber(l), ToNumber(r))
      [] op = "<" ->
            IF l.t = "opaque" \/ r.t = "opaque" \/ (IsStringy(l) /\ IsStringy(r))
            THEN Opaque
            ELSE Bool(NumLess(ToNumber(l), ToNumber(r)))
      [] op = ">" ->
            IF l.t = "opaque" \/ r.t = "opaque" \/ (IsStringy(l) /\ IsStringy(r))
            THEN Opaque
            ELSE Bool(NumLess(ToNumber(r), ToNumber(l)))

RECURSIVE Eval(_, _), EvalArgs(_, _)

\* The value of the expression e, or the exception it throws.  Operands are
\* evaluated left to right and the first exception ends the evaluation;
\* &&, || and ?: evaluate only the operand they select.
Eval(e, env) ==
    CASE e.k = "lit" -> e.v
      [] e.k = "id" -> Resolve(e.s, env)
      [] e.k = "un" ->
            LET v == Eval(e.a[1], env)
            IN  IF v.t = "throw" THEN v
                ELSE IF e.s = "-" THEN NumNeg(ToNumber(v)) ELSE ToNumber(v)
      [] e.k = "bin" /\ e.s \in {"&&", "||"} ->
            LET l == Eval(e.a[1], env)
            IN  IF l.t \in {"throw", "opaque"} THEN l
                ELSE IF Truthy(l) = (e.s = "&&") THEN Eval(e.a[2], env) ELSE l
      [] e.k = "bin" /\ e.s \notin {"&&", "||"} ->
            LET l == Eval(e.a[1], env)
                r == Eval(e.a[2], env)
            IN  IF l.t = "throw" THEN l
                ELSE IF r.t = "throw" THEN r
                ELSE ApplyBinary(e.s, l, r)
      [] e.k = "cond" ->
            LET c == Eval(e.a[1], env)
            IN  IF c.t \in {"throw", "opaque"} THEN c
                ELSE IF Truthy(c) THEN Eval(e.a[2], env) ELSE Eval(e.a[3], env)
      [] e.k = "call" ->
            LET f == Eval(e.a[1], env)
                args == EvalArgs(Tail(e.a), env)
            IN  IF f.t = "throw" THEN f
                ELSE IF args # <<>> /\ args[Len(args)].t = "throw" THEN args[Len(args)]
                ELSE IF f.t # "fn" THEN Throw("TypeError")
                ELSE ApplyCtx(f.s, args, env.w.perm)

\* The arguments of a call in order, up to the first that throws.
EvalArgs(nodes, env) ==
    IF nodes = <<>> THEN <<>>
    ELSE LET v == Eval(Head(nodes), env)
         IN  IF v.t = "throw" THEN <<v>> ELSE <<v>> \o EvalArgs(Tail(nodes), env)

\* The record of one invocation of a compiled function: where it was made
\* ("canary" in compileFormula, "column" in updateTerrain), its arguments,
\* the coordinate fields of Ctx at that moment and its outcome: the value
\* returned or the exception thrown.
Invocation(site, x, z, cx, cz, out) ==
    [site |-> site, x |-> x, z |-> z, cx |-> cx, cz |-> cz, out |-> out]

\* The canary call is made and its exception is dropped: the function is
\* returned all the same.
compileFormula_CanaryIgnored(str, cx, cz, w) ==
    LET safeStr == ReplaceCaret(str)
        Called(f, canary) ==
            [f |-> f.ast, hidden |-> canary.t # "throw",
             calls |-> <<Invocation("canary", 0, 0, cx, cz, canary)>>]
        Built(f) ==
            IF ~f.ok THEN [f |-> NULL, hidden |-> FALSE, calls |-> <<>>]
            ELSE Called(f, Eval(f.ast, Env(0, 0, cx, cz, w)))
    IN  Built(ParseFunctionBody(FunctionBody(safeStr)))

\* compileFormula(str): the function built from str, or null when the
\* Function constructor or the canary call f(Ctx, 0, 0) throws.  hidden is
\* the class error-hidden of the element error-msg afterwards.
compileFormula(str, cx, cz, w) ==
    LET safeStr == ReplaceCaret(str)
        Called(f, canary) ==
            IF canary.t = "throw"
            THEN [f |-> NULL, hidden |-> FALSE,
                  calls |-> <<Invocation("canary", 0, 0, cx, cz, canary)>>]
            ELSE [f |-> f.ast, hidden |-> TRUE,
                  calls |-> <<Invocation("canary", 0, 0, cx, cz, canary)>>]
        Built(f) ==
            IF ~f.ok THEN [f |-> NULL, hidden |-> FALSE, calls |-> <<>>]
            ELSE Called(f, Eval(f.ast, Env(0, 0, cx, cz, w)))
    IN  Built(ParseFunctionBody(FunctionBody(safeStr)))

\* ------------------------------------------------------------------------
\* The voxel window
\* ------------------------------------------------------------------------

TOTAL_INSTANCES == GRID * GRID * LAYERS

\* A colour is the triple of its channels, in hundredths of the 0..255 scale.
Color(r, g, b) == <<100 * r, 100 * g, 100 * b>>

\* The palette `colors`.
colors ==
    [water |-> Color(50, 115, 168),
     sand  |-> Color(222, 194, 138),
     grass |-> Color(86, 163, 76),
     dirt  |-> Color(121, 85, 72),
     stone |-> Color(128, 128, 128),
     snow  |-> Color(255, 255, 255),
     alien |-> Color(156, 39, 176),
     lava  |-> Color(255, 87, 34),
     neon  |-> Color(0, 229, 255)]

\* c.multiplyScalar(0.85)
Darken(c) == [k \in 1..3 |-> (c[k] * 85) \div 100]

\* One instance of instMesh: its position (dummy.position at setMatrixAt)
\* and its colour (setColorAt); set is FALSE until the instance is written.
Instance(x, y, z, c) == [set |-> TRUE, x |-> x, y |-> y, z |-> z, c |-> c]

Unwritten == [set |-> FALSE, x |-> 0, y |-> 0, z |-> 0, c |-> <<0, 0, 0>>]

\* A height the model cannot compute has no value: TLC stops if one is used.
Uncomputed == CHOOSE v \in {} : TRUE

\* The handler of the exception leaves y at 1.
Height_CatchOne(r) ==
    CASE r.t = "num" -> r
      [] r.t = "throw" -> IntVal(1)
      [] OTHER -> IntVal(0)

\* The height y of a column from the outcome r of the invocation:
\*   try { y = compiledFunc(Ctx, wx, wz); } catch(e) { y = 0; }
\*   if(!Number.isFinite(y)) y = 0;
Height(r) ==
    CASE r.t = "num" -> r
      [] r.t = "opaque" -> Uncomputed
      [] OTHER -> IntVal(0)

\* The overrides test the truncated height surfaceY.
Biome_TruncatedOverrides(y) ==
    LET surfaceY == FloorRat(y)
        ladder == IF surfaceY < -2 THEN "WATER"
                  ELSE IF surfaceY < 2 THEN "SAND"
                  ELSE IF surfaceY < 15 THEN "GRASS"
                  ELSE IF surfaceY < 40 THEN "STONE"
                  ELSE "SNOW"
        alien == IF surfaceY > 60 THEN "ALIEN" ELSE ladder
    IN  IF surfaceY < -30 THEN "LAVA" ELSE alien

\* The biome of a column of height y: the ladder on surfaceY = floor(y),
\* then the two overrides on y itself.
Biome(y) ==
    LET surfaceY == FloorRat(y)
        ladder == IF surfaceY < -2 THEN "WATER"
                  ELSE IF surfaceY < 2 THEN "SAND"
                  ELSE IF surfaceY < 15 THEN "GRASS"
                  ELSE IF surfaceY < 40 THEN "STONE"
                  ELSE "SNOW"
        alien == IF NumLess(IntVal(60), y) THEN "ALIEN" ELSE ladder
    IN  IF NumLess(y, IntVal(-30)) THEN "LAVA" ELSE alien

\* The palette colour copied for the top layer of a column of the biome.
SurfaceColor(biome) ==
    CASE biome = "WATER" -> colors.water
      [] biome = "SAND" -> colors.sand
      [] biome = "GRASS" -> colors.grass
      [] biome = "STONE" -> colors.stone
      [] biome = "SNOW" -> colors.snow
      [] biome = "ALIEN" -> colors.alien
      [] biome = "LAVA" -> colors.lava

\* The part of the state that updateTerrain reads and writes.
Terrain(lx, lz, cx, cz, mesh, col, calls, writes) ==
    [lastUpdateX |-> lx, lastUpdateZ |-> lz, x |-> cx, z |-> cz,
     instMesh |-> mesh, color |-> col, calls |-> calls, writes |-> writes]

\* What the body of the inner loop does for one column: the world
\* coordinates it passes to the compiled function, the values of Ctx._x and
\* Ctx._z during that invocation (env), the outcome of the invocation, and
\* the writes of its layers to instMesh.
ColumnRun(env, out, ws) ==
    [wx |-> env.x, wz |-> env.z, cx |-> env.cx, cz |-> env.cz, out |-> out,
     writes |-> ws]

\* One setMatrixAt(idx, ..) with its setColorAt(idx, ..).
Write(idx, inst) == [idx |-> idx, inst |-> inst]

RECURSIVE Layers_Accumulating(_, _, _, _, _, _)
\* The lower layers darken the colour of the layer above them.
Layers_Accumulating(idx, d, wx, wz, surfaceY, biome) ==
    IF d >= LAYERS THEN <<>>
    ELSE LET under == IF biome = "GRASS" THEN colors.dirt ELSE colors.stone
             c == IF d = 0 THEN SurfaceColor(biome)
                  ELSE [k \in 1..3 |-> (under[k] * PowInt(IntVal(85), d).n)
                                          \div PowInt(IntVal(100), d).n]
         IN  <<Write(idx, Instance(wx, surfaceY - d, wz, c))>>
                \o Layers_Accumulating(idx + 1, d + 1, wx, wz, surfaceY, biome)

RECURSIVE Layers(_, _, _, _, _, _)
\* for (let d = 0; d < LAYERS; d++) { ...; idx++; }: the writes, in order.
Layers(idx, d, wx, wz, surfaceY, biome) ==
    IF d >= LAYERS THEN <<>>
    ELSE LET copied == IF d = 0 THEN SurfaceColor(biome)
                       ELSE IF biome = "GRASS" THEN colors.dirt ELSE colors.stone
             c == IF d > 0 THEN Darken(copied) ELSE copied
         IN  <<Write(idx, Instance(wx, surfaceY - d, wz, c))>>
                \o Layers(idx + 1, d + 1, wx, wz, surfaceY, biome)

\* Ctx._x and Ctx._z are set once per refresh, to the centre.
Column_CtxOfCentre(i, j, idx, f, cx, cz, w) ==
    LET offset == GRID \div 2
        wx == cx - offset + i
        wz == cz - offset + j
        called == Env(wx, wz, cx, cz, w)
        Classified(out, y) ==
            LET surfaceY == FloorRat(y)
            IN  ColumnRun(called, out, Layers(idx, 0, wx, wz, surfaceY, Biome(y)))
        Invoked(out) == Classified(out, Height(out))
    IN  Invoked(Eval(f, called))

\* The body of the inner loop for column (i, j), entered with idx: set
\* Ctx._x and Ctx._z, invoke the compiled function, coerce, classify, write
\* the layers.
Column(i, j, idx, f, cx, cz, w) ==
    LET offset == GRID \div 2
        wx == cx - offset + i
        wz == cz - offset + j
        called == Env(wx, wz, wx, wz, w)
        Classified(out, y) ==
            LET surfaceY == FloorRat(y)
            IN  ColumnRun(called, out, Layers(idx, 0, wx, wz, surfaceY, Biome(y)))
        Invoked(out) == Classified(out, Height(out))
    IN  Invoked(Eval(f, called))

RECURSIVE ColumnsOfRow_IdxPerColumn(_, _, _, _, _, _, _)
\* idx advances once per column, not once per layer.
ColumnsOfRow_IdxPerColumn(i, j, idx, f, cx, cz, w) ==
    LET Then(run) ==
            <<run>> \o ColumnsOfRow_IdxPerColumn(i, j + 1, idx + 1, f, cx, cz, w)
    IN  IF j >= GRID THEN <<>> ELSE Then(Column(i, j, idx, f, cx, cz, w))

RECURSIVE ColumnsOfRow(_, _, _, _, _, _, _)
\* for (let j = 0; j < GRID; j++) { ... }: the columns run, in order; idx
\* has advanced by one for every write when the next column is entered.
ColumnsOfRow(i, j, idx, f, cx, cz, w) ==
    LET Then(run) ==
            <<run>> \o ColumnsOfRow(i, j + 1, idx + Len(run.writes), f, cx, cz, w)
    IN  IF j >= GRID THEN <<>> ELSE Then(Column(i, j, idx, f, cx, cz, w))

RECURSIVE WritesOf(_)
\* All the writes of a sequence of columns, in order.
WritesOf(runs) ==
    IF runs = <<>> THEN <<>> ELSE Head(runs).writes \o WritesOf(Tail(runs))

RECURSIVE Rows(_, _, _, _, _, _)
\* for (let i = 0; i < GRID; i++) { ... }
Rows(i, idx, f, cx, cz, w) ==
    LET Then(row) == row \o Rows(i + 1, idx + Len(WritesOf(row)), f, cx, cz, w)
    IN  IF i >= GRID THEN <<>> ELSE Then(ColumnsOfRow(i, 0, idx, f, cx, cz, w))

\* instMesh after the writes ws in order: the last write to an index stays;
\* a write past the end of the instance buffers stores nothing.
ApplyWrites(mesh, ws) ==
    [k \in DOMAIN mesh |->
        LET hits == {n \in 1..Len(ws) : ws[n].idx = k}
        IN  IF hits = {} THEN mesh[k]
            ELSE ws[CHOOSE n \in hits : \A m \in hits : m <= n].inst]

\* The terrain state after the loops have run the columns `runs`.
AfterRuns(t, runs) ==
    LET ws == WritesOf(runs)
        last == runs[Len(runs)]
    IN  [t EXCEPT !.x = IF runs = <<>> THEN @ ELSE last.cx,
                  !.z = IF runs = <<>> THEN @ ELSE last.cz,
                  !.instMesh = ApplyWrites(@, ws),
                  !.color = IF ws = <<>> THEN @ ELSE ws[Len(ws)].inst.c,
                  !.calls = @ \o [n \in 1..Len(runs) |->
                                    Invocation("column", runs[n].wx, runs[n].wz,
                                               runs[n].cx, runs[n].cz, runs[n].out)],
                  !.writes = @ \o [n \in 1..Len(ws) |-> ws[n].idx]]

\* Math.floor of a coordinate of the reference point, kept in half units.
FloorHalf(h) == h \div 2

\* A refresh on every move: the hysteresis band is one unit narrower.
updateTerrain_NarrowBand(force, f, ref, w, t) ==
    LET cx == FloorHalf(ref[1])
        cz == FloorHalf(ref[2])
    IN  IF f = NULL THEN t
        ELSE IF ~force /\ AbsInt(cx - t.lastUpdateX) < 1 /\ AbsInt(cz - t.lastUpdateZ) < 1
        THEN t
        ELSE AfterRuns([t EXCEPT !.lastUpdateX = cx, !.lastUpdateZ = cz],
                       Rows(0, 0, f, cx, cz, w))

\* updateTerrain(force) on the terrain state t, with compiledFunc = f and
\* the reference point controls.target = ref.
updateTerrain(force, f, ref, w, t) ==
    LET cx == FloorHalf(ref[1])
        cz == FloorHalf(ref[2])
    IN  IF f = NULL THEN t
        ELSE IF ~force /\ AbsInt(cx - t.lastUpdateX) < 2 /\ AbsInt(cz - t.lastUpdateZ) < 2
        THEN t
        ELSE AfterRuns([t EXCEPT !.lastUpdateX = cx, !.lastUpdateZ = cz],
                       Rows(0, 0, f, cx, cz, w))

\* ------------------------------------------------------------------------
\* The formulas of the model
\* ------------------------------------------------------------------------

\* "x + z"
XPlusZ == <<"x", "+", "z">>

\* "x +"
Dangling == <<"x", "+">>

\* "floor(x/4)*4 + floor(z/4)*4"
EndToEnd ==
    <<"floor", "(", "x", "/", "4", ")", "*", "4", "+",
      "floor", "(", "z", "/", "4", ")", "*", "4">>

\* "x > 1 ? foo : 10/x": foo is bound nowhere, and is not evaluated at (0,0)
ColdBranch == <<"x", ">", "1", "?", "foo", ":", "10", "/", "x">>

\* "x < 0 ? sin : z < 0 ? -1/0 : 0/x": a function where x < 0, -Infinity
\* where z < 0 <= x, NaN on the rest of the line x = 0, and 0 elsewhere
NotFinite ==
    <<"x", "<", "0", "?", "sin", ":", "z", "<", "0", "?", "-", "1", "/", "0",
      ":", "0", "/", "x">>

\* "mod(x, z)"
ModXZ == <<"mod", "(", "x", ",", "z", ")">>

\* "innerWidth / 100"
HostRead == <<"innerWidth", "/", "100">>

\* "foo"
Unbound == <<"foo">>

\* The texts that the user types into the formula input.
UserFormulas == {Dangling, EndToEnd, ColdBranch, NotFinite}

\* case 'One Block' of Generator.getFormulaForTheme
OneBlock ==
    <<"(", "abs", "(", "x", ")", "<", "1", "&&", "abs", "(", "z", ")", "<", "1", ")",
      "?", "10", ":", "0">>

\* case 'Star' of Generator.getFormulaForTheme
Star ==
    <<"max", "(", "0", ",", "30", "-", "sqrt", "(", "x", "*", "x", "+", "z", "*", "z", ")",
      "+", "sin", "(", "atan2", "(", "z", ",", "x", ")", "*", "5", ")", "*", "10", ")">>

\* The outcomes of Generator.create() that the model draws from: the themes
\* whose formula holds no noise term and no random sub-expression.
GeneratorCreate ==
    {[formula |-> OneBlock, type |-> "One Block"],
     [formula |-> Star, type |-> "Star"]}

\* The texts handed to compileFormula in the specification of the engine.
EngineFormulas ==
    UserFormulas \cup {XPlusZ, ModXZ, HostRead, Unbound, <<>>}
        \cup {data.formula : data \in GeneratorCreate}

\* The widths of the window.
Widths == {800, 1600}

\* The positions of controls.target, in half units.
RefPoints == (-MaxRefX..MaxRefX) \X (-MaxRefZ..MaxRefZ)

\* ------------------------------------------------------------------------
\* Generator.genExpr
\* ------------------------------------------------------------------------

ops == {"+", "-", "*"}

funcs == {"sin", "cos", "abs", "floor", "round", "sqrt"}

noiseTypes == {"Perlin", "Simplex", "Normal", "Blended"}

\* noiseKey.toLowerCase()
ToLowerCase(noiseKey) ==
    CASE noiseKey = "Perlin" -> "perlin"
      [] noiseKey = "Simplex" -> "simplex"
      [] noiseKey = "Normal" -> "normal"
      [] noiseKey = "Blended" -> "blended"

\* The largest budget that genExpr is started with.
MaxDepth == 2

\* The texts that genExpr returns when depth <= 0, with the digits that
\* toFixed gives for Math.random() = 0.5: (0.5*0.15 + 0.01).toFixed(3) and
\* (0.5*15).toFixed(1).
LeafTexts == {<<v, "*", "0.085">> : v \in {"x", "z"}} \cup {<<"7.5">>}

\* The text of the last return of genExpr, for Math.random() = 0.5 at each
\* of its three draws.
NoiseText(noiseKey) ==
    <<ToLowerCase(noiseKey), "(", "x", "*", "0.050", ",", "0", ",", "z", "*", "0.050",
      ")", "*", "15">>

\* One call of genExpr in progress: its budget, the branch it took, the
\* number of recursive calls that the branch makes, the texts that those
\* calls have returned, the operator or function picked, and the text of a
\* branch that makes no call.
Frame(depth, kind, need, head, text) ==
    [depth |-> depth, kind |-> kind, need |-> need, parts |-> <<>>, head |-> head,
     text |-> text]

\* The budget of a recursive call of genExpr made with budget depth.
Recurse_SameBudget(depth) == depth

Recurse(depth) == depth - 1

\* The frames that a call genExpr(depth, noiseKey) can open: the guard on
\* depth, then the draw of type.
Enter(depth, noiseKey) ==
    IF depth <= 0
    THEN {Frame(depth, "leaf", 0, "", t) : t \in LeafTexts}
    ELSE {Frame(depth, "op", 2, "", <<>>)}
             \cup {Frame(depth, "func", 1, f, <<>>) : f \in funcs}
             \cup {Frame(depth, "noise", 0, "", NoiseText(noiseKey))}

\* The frame of a caller once a recursive call has returned text: the
\* operator of a binary expression is picked after its left operand.
Deliver(frame, text) ==
    IF frame.kind = "op" /\ frame.parts = <<>>
    THEN {[frame EXCEPT !.parts = <<text>>, !.head = o] : o \in ops}
    ELSE {[frame EXCEPT !.parts = Append(@, text)]}

\* The text that a frame returns once all its calls have returned.
TextOf(frame) ==
    CASE frame.kind = "op" ->
             <<"(">> \o frame.parts[1] \o <<frame.head>> \o frame.parts[2] \o <<")">>
      [] frame.kind = "func" -> <<frame.head, "(">> \o frame.parts[1] \o <<")">>
      [] OTHER -> frame.text

\* No call of genExpr is in progress and none has returned.
GenIdle ==
    [pc |-> "idle", budget |-> 0, noiseKey |-> "Perlin", stack |-> <<>>, count |-> 0,
     out |-> <<>>]

\* ------------------------------------------------------------------------
\* State
\* ------------------------------------------------------------------------

VARIABLES
    pc,            \* "load" until the script reaches its first initGen(), then "idle"
    compiledFunc,  \* the installed function (its syntax tree), or NULL
    lastUpdateX,   \* the centre of the last refresh
    lastUpdateZ,
    Ctx_x,         \* Ctx._x
    Ctx_z,         \* Ctx._z
    target,        \* controls.target (x, z), in half units
    instMesh,      \* the instances: position and colour by index
    color,         \* the scratch colour `color`
    inputValue,    \* ui.input.value
    errorHidden,   \* whether error-msg carries the class error-hidden
    historyList,   \* the generated formulas, newest first
    innerWidth,    \* window.innerWidth
    probe,         \* the column run on a probed height (SpecBiome)
    calls,         \* the invocations of compiled functions by the last handler
                   \* that compiles or updates the terrain
    writes,        \* the indices written to instMesh by that handler
    gen,           \* the calls of Generator.genExpr in progress (SpecGenExpr)
    perm,          \* Noise.perm
    returned       \* the last call of a function of the math engine made on its
                   \* own: its name, its arguments, what it returned and the
                   \* indices of Noise.perm and Noise.grad3 that it read

terrainVars == <<lastUpdateX, lastUpdateZ, Ctx_x, Ctx_z, instMesh, color, calls, writes>>

windowVars ==
    <<pc, compiledFunc, lastUpdateX, lastUpdateZ, Ctx_x, Ctx_z, target, instMesh,
      color, inputValue, errorHidden, historyList, innerWidth, probe, calls, writes>>

vars == <<windowVars, gen, perm, returned>>

\* let lastUpdateX = -999999
NeverUpdated == -999999

\* The terrain state at the start of a handler, which has made no call and
\* no write yet.
TerrainNow ==
    Terrain(lastUpdateX, lastUpdateZ, Ctx_x, Ctx_z, instMesh, color, <<>>, <<>>)

\* The terrain state t becomes the state.
SetTerrain(t) ==
    /\ lastUpdateX' = t.lastUpdateX
    /\ lastUpdateZ' = t.lastUpdateZ
    /\ Ctx_x' = t.x
    /\ Ctx_z' = t.z
    /\ instMesh' = t.instMesh
    /\ color' = t.color
    /\ calls' = t.calls
    /\ writes' = t.writes

\* No column has been probed.
NoProbe == ColumnRun(Env(0, 0, 0, 0, Host(0, <<>>)), Undefined, <<>>)

\* A call that does not read Noise.perm.
NoReads == [perm |-> <<>>, gi |-> <<>>]

\* No function of the math engine has been called on its own.
NoReturn == [fn |-> "", args |-> <<>>, out |-> Undefined, reads |-> NoReads]

Init ==
    /\ pc = "load"
    /\ compiledFunc = NULL
    /\ lastUpdateX = NeverUpdated
    /\ lastUpdateZ = NeverUpdated
    /\ Ctx_x = 0
    /\ Ctx_z = 0
    /\ target = <<0, 0>>
    /\ instMesh = [idx \in 0..(TOTAL_INSTANCES - 1) |-> Unwritten]
    /\ color = Color(255, 255, 255)
    /\ inputValue = <<>>
    /\ errorHidden \in BOOLEAN
    /\ historyList = <<>>
    /\ innerWidth = 800
    /\ probe = NoProbe
    /\ calls = <<>>
    /\ writes = <<>>
    /\ gen = GenIdle
    /\ perm \in {seed(draws) : draws \in WindowDraws}
    /\ returned = NoReturn

\* ------------------------------------------------------------------------
\* Handlers
\* ------------------------------------------------------------------------

\* compiledFunc = compileFormula(str); updateTerrain(true);
Render(str, table) ==
    LET Installed(c) ==
            /\ compiledFunc' = c.f
            /\ errorHidden' = c.hidden
            /\ SetTerrain(updateTerrain(TRUE, c.f, target, Host(innerWidth, table),
                                        [TerrainNow EXCEPT !.calls = c.calls]))
    IN  Installed(compileFormula(str, Ctx_x, Ctx_z, Host(innerWidth, table)))

\* historyList.unshift(item); if(historyList.length > 50) historyList.pop();
addToHistory(item) ==
    LET unshifted == <<item>> \o historyList
    IN  historyList' = IF Len(unshifted) > HistoryCap
                       THEN SubSeq(unshifted, 1, Len(unshifted) - 1)
                       ELSE unshifted

\* initGen(), called once when the script loads and on every click on gen-btn.
initGen ==
    \E draws \in WindowDraws, data \in GeneratorCreate :
        /\ pc' = "idle"
        /\ perm' = seed(draws)
        /\ inputValue' = data.formula
        /\ Render(data.formula, seed(draws))
        /\ addToHistory(data)
        /\ UNCHANGED <<target, innerWidth, probe, gen, returned>>

\* ui.input.oninput, after the user has changed the text to str.
InputOnInput ==
    \E str \in UserFormulas :
        /\ pc = "idle"
        /\ inputValue' = str
        /\ Render(str, perm)
        /\ UNCHANGED <<pc, target, historyList, innerWidth, probe,
                       gen, perm, returned>>

\* The click on the row of a history item: the item is loaded.
HistoryLoad ==
    \E index \in 1..Len(historyList) :
        /\ pc = "idle"
        /\ inputValue' = historyList[index].formula
        /\ Render(historyList[index].formula, perm)
        /\ UNCHANGED <<pc, target, historyList, innerWidth, probe,
                       gen, perm, returned>>

\* The listener of the 'change' event of the controls, which fires when the
\* camera has moved or turned: the reference point is at `to` by then.
ControlsChange ==
    \E to \in RefPoints :
        /\ pc = "idle"
        /\ target' = to
        /\ SetTerrain(updateTerrain(FALSE, compiledFunc, to, Host(innerWidth, perm),
                                    TerrainNow))
        /\ UNCHANGED <<pc, compiledFunc, inputValue, errorHidden, historyList, innerWidth,
                       probe,
                       gen, perm, returned>>

\* The click on reset-cam: the target returns to the origin, controls.update()
\* fires 'change' when that moved the camera, and the terrain is forced.
ResetCam ==
    \E changed \in BOOLEAN :
        LET listened == IF changed
                        THEN updateTerrain(FALSE, compiledFunc, <<0, 0>>,
                                           Host(innerWidth, perm), TerrainNow)
                        ELSE TerrainNow
        IN  /\ pc = "idle"
            /\ target' = <<0, 0>>
            /\ SetTerrain(updateTerrain(TRUE, compiledFunc, <<0, 0>>,
                                        Host(innerWidth, perm), listened))
            /\ UNCHANGED <<pc, compiledFunc, inputValue, errorHidden, historyList,
                           innerWidth, probe,
                       gen, perm, returned>>

\* window.onresize, after the window has taken the width w; the handler
\* itself updates the camera and the renderer only.
OnResize ==
    \E w \in Widths :
        /\ pc # "load"
        /\ innerWidth' = w
        /\ UNCHANGED <<pc, compiledFunc, lastUpdateX, lastUpdateZ, Ctx_x, Ctx_z,
                       target, instMesh, color, inputValue, errorHidden, historyList,
                       probe, calls, writes,
                       gen, perm, returned>>

Next ==
    \/ initGen
    \/ InputOnInput
    \/ HistoryLoad
    \/ ControlsChange
    \/ ResetCam

Spec == Init /\ [][Next]_vars

\* ------------------------------------------------------------------------
\* The expression engine on its own: compileFormula and the function it
\* returns, applied to texts and coordinates drawn from bounded sets.
\* ------------------------------------------------------------------------

InitEngine ==
    /\ pc = "engine"
    /\ compiledFunc = NULL
    /\ lastUpdateX = NeverUpdated
    /\ lastUpdateZ = NeverUpdated
    /\ Ctx_x = 0
    /\ Ctx_z = 0
    /\ target = <<0, 0>>
    /\ instMesh = [idx \in 0..(TOTAL_INSTANCES - 1) |-> Unwritten]
    /\ color = Color(255, 255, 255)
    /\ inputValue = <<>>
    /\ errorHidden = TRUE
    /\ historyList = <<>>
    /\ innerWidth \in Widths
    /\ probe = NoProbe
    /\ calls = <<>>
    /\ writes = <<>>
    /\ gen = GenIdle
    /\ perm \in {seed(draws) : draws \in WindowDraws}
    /\ returned = NoReturn

\* compiledFunc = compileFormula(str)
EngineCompile ==
    \E str \in EngineFormulas :
        LET Installed(c) ==
                /\ compiledFunc' = c.f
                /\ errorHidden' = c.hidden
                /\ calls' = c.calls
        IN  /\ pc = "engine"
            /\ inputValue' = str
            /\ Installed(compileFormula(str, Ctx_x, Ctx_z, Host(innerWidth, perm)))
            /\ UNCHANGED <<pc, lastUpdateX, lastUpdateZ, Ctx_x, Ctx_z, target, instMesh,
                           color, historyList, innerWidth, probe, writes,
                       gen, perm, returned>>

\* compiledFunc(Ctx, x, z)
EngineInvoke ==
    \E x \in -MaxArg..MaxArg, z \in -MaxArg..MaxArg :
        /\ pc = "engine"
        /\ compiledFunc # NULL
        /\ calls' = <<Invocation("direct", x, z, Ctx_x, Ctx_z,
                                 Eval(compiledFunc, Env(x, z, Ctx_x, Ctx_z,
                                                        Host(innerWidth, perm))))>>
        /\ UNCHANGED <<pc, compiledFunc, lastUpdateX, lastUpdateZ, Ctx_x, Ctx_z, target,
                       instMesh, color, inputValue, errorHidden, historyList, innerWidth,
                       probe, writes,
                       gen, perm, returned>>

NextEngine ==
    \/ EngineCompile
    \/ EngineInvoke
    \/ OnResize

SpecEngine == InitEngine /\ [][NextEngine]_vars

\* ------------------------------------------------------------------------
\* The classification of a column on its own: the body of the column loop
\* run on a function that returns a height drawn from a bounded set.
\* ------------------------------------------------------------------------

Heights == {Num(n, 2) : n \in (-2 * MaxHeight)..(2 * MaxHeight)}

InitBiome ==
    /\ pc = "probe"
    /\ compiledFunc = NULL
    /\ lastUpdateX = NeverUpdated
    /\ lastUpdateZ = NeverUpdated
    /\ Ctx_x = 0
    /\ Ctx_z = 0
    /\ target = <<0, 0>>
    /\ instMesh = [idx \in 0..(TOTAL_INSTANCES - 1) |-> Unwritten]
    /\ color = Color(255, 255, 255)
    /\ inputValue = <<>>
    /\ errorHidden = TRUE
    /\ historyList = <<>>
    /\ innerWidth = 800
    /\ probe = NoProbe
    /\ calls = <<>>
    /\ writes = <<>>
    /\ gen = GenIdle
    /\ perm \in {seed(draws) : draws \in WindowDraws}
    /\ returned = NoReturn

\* The column (0, 0) of a window centred on the origin, for a compiled
\* function that returns y.
ProbeColumn ==
    \E y \in Heights :
        /\ pc = "probe"
        /\ probe' = Column(0, 0, 0, Lit(y), 0, 0, Host(innerWidth, perm))
        /\ UNCHANGED <<pc, compiledFunc, lastUpdateX, lastUpdateZ, Ctx_x, Ctx_z, target,
                       instMesh, color, inputValue, errorHidden, historyList, innerWidth,
                       calls, writes,
                       gen, perm, returned>>

NextBiome == ProbeColumn

SpecBiome == InitBiome /\ [][NextBiome]_vars

\* ------------------------------------------------------------------------
\* Generator.genExpr on its own: the calls and returns of one outer call at
\* a time, with every draw of Math.random() left open.
\* ------------------------------------------------------------------------

InitGenExpr ==
    /\ pc = "genExpr"
    /\ compiledFunc = NULL
    /\ lastUpdateX = NeverUpdated
    /\ lastUpdateZ = NeverUpdated
    /\ Ctx_x = 0
    /\ Ctx_z = 0
    /\ target = <<0, 0>>
    /\ instMesh = [idx \in 0..(TOTAL_INSTANCES - 1) |-> Unwritten]
    /\ color = Color(255, 255, 255)
    /\ inputValue = <<>>
    /\ errorHidden = TRUE
    /\ historyList = <<>>
    /\ innerWidth = 800
    /\ probe = NoProbe
    /\ calls = <<>>
    /\ writes = <<>>
    /\ gen = GenIdle
    /\ perm \in {seed(draws) : draws \in WindowDraws}
    /\ returned = NoReturn

\* this.genExpr(depth, noiseKey), called from outside genExpr.
genExpr ==
    \E depth \in 0..MaxDepth, noiseKey \in noiseTypes :
        \E frame \in Enter(depth, noiseKey) :
            /\ pc = "genExpr"
            /\ gen.pc # "running"
            /\ gen' = [pc |-> "running", budget |-> depth, noiseKey |-> noiseKey,
                       stack |-> <<frame>>, count |-> 1, out |-> <<>>]
            /\ UNCHANGED <<windowVars, perm, returned>>

\* this.genExpr(depth-1, noiseKey), called by the innermost call in progress,
\* which has a call left to make.
genExprRecurse ==
    LET top == gen.stack[Len(gen.stack)]
    IN  /\ gen.pc = "running"
        /\ Len(top.parts) < top.need
        /\ \E frame \in Enter(Recurse(top.depth), gen.noiseKey) :
               gen' = [gen EXCEPT !.stack = Append(@, frame), !.count = @ + 1]
        /\ UNCHANGED <<windowVars, perm, returned>>

\* The return of the innermost call in progress, to its caller or to the
\* outside.
genExprReturn ==
    LET n == Len(gen.stack)
        top == gen.stack[n]
    IN  /\ gen.pc = "running"
        /\ Len(top.parts) = top.need
        /\ IF n = 1
           THEN gen' = [gen EXCEPT !.pc = "returned", !.stack = <<>>,
                                   !.out = TextOf(top)]
           ELSE \E caller \in Deliver(gen.stack[n - 1], TextOf(top)) :
                    gen' = [gen EXCEPT
                               !.stack = Append(SubSeq(gen.stack, 1, n - 2), caller)]
        /\ UNCHANGED <<windowVars, perm, returned>>

NextGenExpr ==
    \/ genExpr
    \/ genExprRecurse
    \/ genExprReturn

\* genExpr is synchronous code: a call in progress takes its next step.
SpecGenExpr ==
    InitGenExpr /\ [][NextGenExpr]_vars /\ WF_vars(genExprRecurse \/ genExprReturn)

\* ------------------------------------------------------------------------
\* The math engine on its own: Noise.seed and the functions Hash.intHash and
\* Ctx.octaved, called in any order on arguments drawn from bounded sets.
\* ------------------------------------------------------------------------

\* The integers that Hash.intHash is called on: the small ones, the ends of
\* the 32-bit range and numbers with bits in each of their four bytes.
Int32s == (-1..1) \cup {-2147483647 - 1, -65537, 65536, 16777619, 2147483647}

\* The coordinates that Ctx.octaved is called on are the halves n/2 with n
\* from -MaxCoord to MaxCoord.
MaxCoord == 1

\* The call fn(args), which returned out.
Returned(fn, args, out) == [fn |-> fn, args |-> args, out |-> out, reads |-> NoReads]

\* The state once the script has loaded, with Noise.seed() run on draws
\* of seeds.
InitMath(seeds) ==
    /\ pc = "math"
    /\ compiledFunc = NULL
    /\ lastUpdateX = NeverUpdated
    /\ lastUpdateZ = NeverUpdated
    /\ Ctx_x = 0
    /\ Ctx_z = 0
    /\ target = <<0, 0>>
    /\ instMesh = [idx \in 0..(TOTAL_INSTANCES - 1) |-> Unwritten]
    /\ color = Color(255, 255, 255)
    /\ inputValue = <<>>
    /\ errorHidden = TRUE
    /\ historyList = <<>>
    /\ innerWidth = 800
    /\ probe = NoProbe
    /\ calls = <<>>
    /\ writes = <<>>
    /\ gen = GenIdle
    /\ perm \in {seed(draws) : draws \in seeds}
    /\ returned = NoReturn

\* Noise.seed(), on draws of seeds.
NoiseSeed(seeds) ==
    \E draws \in seeds :
        /\ pc = "math"
        /\ perm' = seed(draws)
        /\ UNCHANGED <<windowVars, gen, returned>>

\* Hash.intHash(x, z)
HashIntHash ==
    \E x \in Int32s, z \in Int32s :
        /\ pc = "math"
        /\ returned' = Returned("intHash", <<x, z>>, intHash(x, z))
        /\ UNCHANGED <<windowVars, gen, perm>>

\* Ctx.octaved(x, z, oct, per) and Ctx.octaved(x, z, oct)
CtxOctaved ==
    \E x, z \in {Num(n, 2) : n \in -MaxCoord..MaxCoord},
       oct \in {IntVal(1), Undefined},
       rest \in {<<>>, <<IntVal(0)>>, <<IntVal(2)>>} :
        /\ pc = "math"
        /\ returned' = Returned("octaved", <<x, z, oct>> \o rest,
                                octaved(<<x, z, oct>> \o rest, perm))
        /\ UNCHANGED <<windowVars, gen, perm>>

\* Seeds and hashes, with every run of Noise.seed.
NextHash ==
    \/ NoiseSeed(Draws)
    \/ HashIntHash

SpecHash == InitMath(Draws) /\ [][NextHash]_vars

\* Seeds and noise, with the runs of Noise.seed that draw 0..MaxNoiseDraw.
NextNoise ==
    \/ NoiseSeed(DrawsUpTo(MaxNoiseDraw))
    \/ CtxOctaved

SpecNoise == InitMath(DrawsUpTo(MaxNoiseDraw)) /\ [][NextNoise]_vars

\* Noise.simplex on its own, under tables of 2^SimplexBits entries: large
\* enough to hold values above the 12 gradients of Noise.grad3.
SimplexBits == 4

SimplexSize == 2 ^ SimplexBits

\* The runs of Noise.seed on such a table that draw r = (i + shift) mod the
\* size at every i, for the shifts up to MaxShift.
MaxShift == 3

ShiftDraws ==
    {[i \in 0..(SimplexSize - 1) |-> (i + shift) % SimplexSize] : shift \in 0..MaxShift}

\* The coordinates that Noise.simplex is called on: the halves around 0 and
\* around the points whose lattice cells are the first and the last of the
\* table, on both sides of 0.
SimplexCoords ==
    LET k == (9 * SimplexSize) \div 8
    IN  {Num(n, 2) : n \in {-k - 3, -k - 1, -k, -1, 0, 1, k, k + 1}}

\* Noise.simplex(x, y)
NoiseSimplex ==
    \E x \in SimplexCoords, y \in SimplexCoords :
        /\ pc = "math"
        /\ returned' = [Returned("simplex", <<x, y>>, simplex(x, y, perm))
                           EXCEPT !.reads = simplexReads(x, y, perm)]
        /\ UNCHANGED <<windowVars, gen, perm>>

NextSimplex ==
    \/ NoiseSeed(ShiftDraws)
    \/ NoiseSimplex

SpecSimplex == InitMath(ShiftDraws) /\ [][NextSimplex]_vars

\* ------------------------------------------------------------------------
\* script.js: the same compileFormula and updateTerrain, centred on
\* camera.position, with its own handlers.  The variable target holds
\* (camera.position.x, camera.position.z) here, in half units.
\* ------------------------------------------------------------------------

\* const INITIAL_CAM_POS = { x: 0, y: 60, z: 60 }
INITIAL_CAM_POS == <<0, 120>>

\* The positions that the controls and the zoom slider move the camera to.
CameraPositions == {INITIAL_CAM_POS, <<1, 120>>, <<4, 120>>}

\* "simplex(x*0.05, 0, z*0.05) * 10 * 15": Generator.create('EXPERT') when
\* genExpr(3) takes its last return and picks 'simplex'
SimplexTimes15 ==
    <<"simplex", "(", "x", "*", "0.05", ",", "0", ",", "z", "*", "0.05", ")", "*", "10",
      "*", "15">>

\* The outcomes of Generator.create(type) of script.js that the model draws
\* from.
ScriptCreate == {SimplexTimes15}

InitScript ==
    /\ pc = "load"
    /\ compiledFunc = NULL
    /\ lastUpdateX = NeverUpdated
    /\ lastUpdateZ = NeverUpdated
    /\ Ctx_x = 0
    /\ Ctx_z = 0
    /\ target = INITIAL_CAM_POS
    /\ instMesh = [idx \in 0..(TOTAL_INSTANCES - 1) |-> Unwritten]
    /\ color = Color(255, 255, 255)
    /\ inputValue = <<>>
    /\ errorHidden = TRUE
    /\ historyList = <<>>
    /\ innerWidth = 800
    /\ probe = NoProbe
    /\ calls = <<>>
    /\ writes = <<>>
    /\ gen = GenIdle
    /\ perm \in {seed(draws) : draws \in DrawsUpTo(MaxNoiseDraw)}
    /\ returned = NoReturn

\* initGen() of script.js, called when the script loads.
ScriptInitGen ==
    \E formula \in ScriptCreate :
        /\ pc = "load"
        /\ pc' = "idle"
        /\ inputValue' = formula
        /\ Render(formula, perm)
        /\ UNCHANGED <<target, historyList, innerWidth, probe, gen, perm, returned>>

\* The click on gen-btn: initGen(); Noise.seed();
GenBtnClick ==
    \E formula \in ScriptCreate, draws \in DrawsUpTo(MaxNoiseDraw) :
        /\ pc = "idle"
        /\ inputValue' = formula
        /\ Render(formula, perm)
        /\ perm' = seed(draws)
        /\ UNCHANGED <<pc, target, historyList, innerWidth, probe, gen, returned>>

\* The 'input' listener of the formula input, after the user has changed the
\* text to str.
ScriptInput ==
    \E str \in {XPlusZ, Dangling} :
        /\ pc = "idle"
        /\ inputValue' = str
        /\ Render(str, perm)
        /\ UNCHANGED <<pc, target, historyList, innerWidth, probe, gen, perm, returned>>

\* animate(): controls.update(), which moves the camera to `to` (it rotates
\* and is damped) or leaves it, then updateTerrain().
Animate ==
    \E to \in CameraPositions :
        /\ pc = "idle"
        /\ target' = to
        /\ SetTerrain(updateTerrain(FALSE, compiledFunc, to, Host(innerWidth, perm),
                                    TerrainNow))
        /\ UNCHANGED <<pc, compiledFunc, inputValue, errorHidden, historyList, innerWidth,
                       probe, gen, perm, returned>>

\* The 'input' listener of the zoom slider: the camera is moved along its
\* line to the target.
ZoomSliderInput ==
    \E to \in CameraPositions :
        /\ pc = "idle"
        /\ target' = to
        /\ UNCHANGED <<pc, compiledFunc, terrainVars, inputValue, errorHidden, historyList,
                       innerWidth, probe, gen, perm, returned>>

\* The click on reset-cam of script.js: camera.position.set(0, 60, 60).
ScriptResetCam ==
    /\ pc = "idle"
    /\ target' = INITIAL_CAM_POS
    /\ UNCHANGED <<pc, compiledFunc, terrainVars, inputValue, errorHidden, historyList,
                   innerWidth, probe, gen, perm, returned>>

NextScript ==
    \/ ScriptInitGen
    \/ GenBtnClick
    \/ ScriptInput
    \/ Animate
    \/ ZoomSliderInput
    \/ ScriptResetCam

SpecScript == InitScript /\ [][NextScript]_vars

\* ------------------------------------------------------------------------
\* Properties
\* ------------------------------------------------------------------------

\* The reference point of the next state lies within the hysteresis band of
\* the recorded centre, on both axes.
WithinBand ==
    /\ AbsInt(FloorHalf(target'[1]) - lastUpdateX) < 2
    /\ AbsInt(FloorHalf(target'[2]) - lastUpdateZ) < 2

\* C1: updateTerrain(false) with the floor of the reference point less than
\* 2 units from the recorded centre on both axes is a no-op: it writes no
\* instance, invokes the compiled function zero times, and leaves
\* lastUpdateX, lastUpdateZ, Ctx._x and Ctx._z unchanged.
C1_HysteresisNoOp ==
    [][(ControlsChange /\ WithinBand)
          => /\ UNCHANGED <<instMesh, lastUpdateX, lastUpdateZ, Ctx_x, Ctx_z,
                       gen, perm, returned>>
             /\ calls' = <<>>
             /\ writes' = <<>>]_vars

\* A function is installed, the reference point has moved to 1 unit from the
\* recorded centre on x, and the handler that moved it has made no call and
\* no write.
C1_Witness ==
    /\ pc = "idle"
    /\ compiledFunc # NULL
    /\ instMesh[0].set
    /\ AbsInt(FloorHalf(target[1]) - lastUpdateX) = 1
    /\ AbsInt(FloorHalf(target[2]) - lastUpdateZ) < 2
    /\ calls = <<>>
    /\ writes = <<>>

\* The state is that of a full refresh on the reference point: the centre
\* recorded is the floor of the reference point and every index of instMesh
\* has been written by the handler.
FullRefresh ==
    /\ lastUpdateX = FloorHalf(target[1])
    /\ lastUpdateZ = FloorHalf(target[2])
    /\ {writes[n] : n \in DOMAIN writes} = 0..(TOTAL_INSTANCES - 1)

\* C2: in every reachable state, updateTerrain(true), and updateTerrain(false)
\* with the floor of the reference point 2 or more units from the recorded
\* centre on an axis, performs a full refresh: it records the floor of the
\* reference point as the centre and overwrites every instance.
C2_RefreshTrigger ==
    [][((initGen \/ InputOnInput \/ HistoryLoad \/ ResetCam)
           \/ (ControlsChange /\ ~WithinBand))
          => FullRefresh']_vars

\* C3: when the text of a formula edit or of a history load fails to
\* compile, the function installed after the handler is the function that
\* was installed before it.
C3_FailedCompileRetains ==
    [][((InputOnInput \/ HistoryLoad) /\ ~errorHidden')
          => compiledFunc' = compiledFunc]_vars

\* C4: when the text of a formula edit or of a history load fails to
\* compile, the updateTerrain(true) that follows writes no instance: every
\* instance, in position and colour, and the recorded centre are the same
\* before and after the handler.
C4_FailedCompileLeavesTerrain ==
    [][((InputOnInput \/ HistoryLoad) /\ ~errorHidden')
          => /\ UNCHANGED <<instMesh, lastUpdateX, lastUpdateZ,
                       gen, perm, returned>>
             /\ writes' = <<>>]_vars

\* The edit "x +" has failed to compile over a terrain that is rendered.
C4_Witness ==
    /\ pc = "idle"
    /\ inputValue = Dangling
    /\ ~errorHidden
    /\ instMesh[0].set
    /\ lastUpdateX # NeverUpdated
    /\ writes = <<>>

\* C5: in a refresh, a column whose invocation throws or returns a value
\* that is not a finite number has height 0 (surface level 0, the colour of
\* sand on top); the refresh runs all GRID * GRID columns, and every other
\* column has the surface level of the value its own invocation returned.
C5_ColumnFailureLocal ==
    writes # <<>> =>
        LET columns == SelectSeq(calls, LAMBDA c : c.site = "column")
            first == Len(columns) - GRID * GRID
        IN  /\ Len(columns) >= GRID * GRID
            /\ Len(columns) % (GRID * GRID) = 0
            /\ \A n \in 1..(GRID * GRID) :
                 LET out == columns[first + n].out
                     top == (n - 1) * LAYERS
                 IN  IF out.t = "num"
                     THEN \A d \in 0..(LAYERS - 1) :
                            instMesh[top + d].y = (out.n \div out.d) - d
                     ELSE /\ instMesh[top].c = colors.sand
                          /\ \A d \in 0..(LAYERS - 1) : instMesh[top + d].y = 0 - d

\* A refresh of "x > 1 ? foo : 10/x" in which one column has thrown, one
\* has returned Infinity and one has returned a finite height other than 0.
C5_Witness ==
    /\ writes # <<>>
    /\ inputValue = ColdBranch
    /\ \E n \in DOMAIN calls : calls[n].site = "column" /\ calls[n].out.t = "throw"
    /\ \E n \in DOMAIN calls : calls[n].site = "column" /\ calls[n].out.t = "inf"
    /\ \E idx \in DOMAIN instMesh : instMesh[idx].y > 1

\* C6: a full refresh writes GRID * GRID * LAYERS instances, the indices
\* 0 .. GRID * GRID * LAYERS - 1 once each and in order, and the instance of
\* index (i * GRID + j) * LAYERS + d is at (cx - floor(GRID / 2) + i,
\* surface level of column (i, j) - d, cz - floor(GRID / 2) + j), where
\* (cx, cz) is the recorded centre: the column i = j = floor(GRID / 2) is the
\* centre column.
C6_CountAndOrder ==
    writes # <<>> =>
        /\ Len(writes) % TOTAL_INSTANCES = 0
        /\ \A n \in DOMAIN writes : writes[n] = (n - 1) % TOTAL_INSTANCES
        /\ \A i \in 0..(GRID - 1), j \in 0..(GRID - 1), d \in 0..(LAYERS - 1) :
             LET inst == instMesh[(i * GRID + j) * LAYERS + d]
             IN  /\ inst.set
                 /\ inst.x = lastUpdateX - (GRID \div 2) + i
                 /\ inst.z = lastUpdateZ - (GRID \div 2) + j
                 /\ inst.y = instMesh[(i * GRID + j) * LAYERS].y - d
        /\ LET centre == instMesh[((GRID \div 2) * GRID + (GRID \div 2)) * LAYERS]
           IN  centre.x = lastUpdateX /\ centre.z = lastUpdateZ

\* A refresh on a centre away from the origin on both axes.
C6_Witness ==
    /\ writes # <<>>
    /\ Len(writes) = TOTAL_INSTANCES
    /\ lastUpdateX = 1
    /\ lastUpdateZ = -1
    /\ instMesh[0].x = 1 - (GRID \div 2)

\* C7: the biome of a column of finite height y, with h = floor(y), is LAVA
\* if y < -30, otherwise ALIEN if y > 60, otherwise WATER if h < -2, SAND if
\* h < 2, GRASS if h < 15, STONE if h < 40 and SNOW from 40 on.
C7_BiomeClassification ==
    probe.writes # <<>> =>
        LET y == probe.out
            h == y.n \div y.d
            top == probe.writes[1].inst
            classify == IF y.n < -30 * y.d THEN "LAVA"
                        ELSE IF y.n > 60 * y.d THEN "ALIEN"
                        ELSE IF h < -2 THEN "WATER"
                        ELSE IF h < 2 THEN "SAND"
                        ELSE IF h < 15 THEN "GRASS"
                        ELSE IF h < 40 THEN "STONE"
                        ELSE "SNOW"
        IN  /\ top.c = SurfaceColor(classify)
            /\ top.y = h
            /\ y = IntVal(-3) => top.c = colors.water
            /\ y = IntVal(0) => top.c = colors.sand
            /\ y = IntVal(10) => top.c = colors.grass
            /\ y = IntVal(20) => top.c = colors.stone
            /\ y = IntVal(50) => top.c = colors.snow
            /\ y = IntVal(65) => top.c = colors.alien
            /\ y = IntVal(-35) => top.c = colors.lava

\* The column of height 60.5: surface level 60, biome ALIEN.
C7_Witness ==
    /\ probe.writes # <<>>
    /\ probe.out = Num(121, 2)
    /\ probe.writes[1].inst.y = 60
    /\ probe.writes[1].inst.c = colors.alien

\* The terrain is that of "floor(x/4)*4 + floor(z/4)*4" on the centre (0, 0).
EndToEndRendered ==
    /\ inputValue = EndToEnd
    /\ compiledFunc # NULL
    /\ lastUpdateX = 0
    /\ lastUpdateZ = 0

\* The surface level of every column is the value of
\* floor(x/4)*4 + floor(z/4)*4 at the world coordinates of the column.
EndToEndLevels ==
    \A i \in 0..(GRID - 1), j \in 0..(GRID - 1) :
        LET wx == 0 - (GRID \div 2) + i
            wz == 0 - (GRID \div 2) + j
            top == instMesh[(i * GRID + j) * LAYERS]
        IN  /\ top.x = wx
            /\ top.z = wz
            /\ top.y = (wx \div 4) * 4 + (wz \div 4) * 4

\* C8 as stated: with the formula "floor(x/4)*4 + floor(z/4)*4" and the
\* centre (0, 0), every column has the surface level of the formula at its
\* world coordinates, and the biome of every column is GRASS or SAND.
C8_EndToEnd_Original ==
    EndToEndRendered =>
        /\ EndToEndLevels
        /\ \A i \in 0..(GRID - 1), j \in 0..(GRID - 1) :
             instMesh[(i * GRID + j) * LAYERS].c \in {colors.grass, colors.sand}

\* C8: with the formula "floor(x/4)*4 + floor(z/4)*4" and the centre (0, 0),
\* every column has the surface level of the formula at its world
\* coordinates, and the biome of every column is WATER or SAND.
C8_EndToEnd ==
    EndToEndRendered =>
        /\ EndToEndLevels
        /\ \A i \in 0..(GRID - 1), j \in 0..(GRID - 1) :
             instMesh[(i * GRID + j) * LAYERS].c \in {colors.water, colors.sand}

\* The window of the formula on the centre (0, 0): level -8 and water at
\* the column (-2, -2), level 0 and sand at the column (0, 0).
C8_Witness ==
    /\ EndToEndRendered
    /\ writes # <<>>
    /\ instMesh[0].y = -8
    /\ instMesh[0].c = colors.water
    /\ instMesh[((GRID \div 2) * GRID + (GRID \div 2)) * LAYERS].y = 0
    /\ instMesh[((GRID \div 2) * GRID + (GRID \div 2)) * LAYERS].c = colors.sand

\* The identifiers of the text last handed to compileFormula.
IdentifiersOfInput ==
    {inputValue[n] : n \in {m \in DOMAIN inputValue : IsIdentifier(inputValue[m])}}

\* C9: compileFormula returns null for every text that is malformed or that
\* names a symbol bound neither to x or z nor to a member of Ctx; "x + z"
\* compiles and returns 5 at (2, 3); "x +" does not compile.
C9_CompileRejectsBad ==
    /\ compiledFunc # NULL => IdentifiersOfInput \subseteq CtxMembers \cup {"x", "z"}
    /\ inputValue = Dangling => compiledFunc = NULL
    /\ inputValue = XPlusZ =>
         /\ compiledFunc # NULL
         /\ \A n \in DOMAIN calls :
              (calls[n].site = "direct" /\ calls[n].x = 2 /\ calls[n].z = 3)
                 => calls[n].out = IntVal(5)

\* C10: an identifier of a compiled formula resolves to x, z, C or a member
\* of Ctx only, so two runs that differ in the state outside Ctx only, here
\* the width of the window, evaluate the installed function to the same
\* result at every point.
C10_ScopeIsolation ==
    compiledFunc # NULL =>
        \A x \in -MaxArg..MaxArg, z \in -MaxArg..MaxArg :
            \A w1 \in Widths, w2 \in Widths :
                Eval(compiledFunc, Env(x, z, Ctx_x, Ctx_z, Host(w1, perm)))
                    = Eval(compiledFunc, Env(x, z, Ctx_x, Ctx_z, Host(w2, perm)))

\* C11: the formula that Generator.create returns always compiles, so
\* initGen never installs null.
C11_GeneratorCompiles ==
    [][initGen => compiledFunc' # NULL]_vars

\* C13: a compiled formula is invoked inside the bracket of a column of a
\* refresh only, with Ctx._x and Ctx._z set to the coordinates passed to it:
\* never elsewhere, compilation included.
C13_EvaluationBracket ==
    \A n \in DOMAIN calls :
        /\ calls[n].site = "column"
        /\ calls[n].cx = calls[n].x
        /\ calls[n].cz = calls[n].z

\* The invocations of the columns by the last handler, in order.
ColumnCalls == SelectSeq(calls, LAMBDA c : c.site = "column")

\* C16: at each invocation of the compiled function in a refresh Ctx._x and
\* Ctx._z are the coordinates (wx, wz) passed to it, and a refresh invokes
\* the function once per column, column after column in the order of the
\* loops.
C16_CoordinateDiscipline ==
    /\ Len(ColumnCalls) % (GRID * GRID) = 0
    /\ \A n \in DOMAIN ColumnCalls :
         LET call == ColumnCalls[n]
             i == ((n - 1) % (GRID * GRID)) \div GRID
             j == (n - 1) % GRID
         IN  /\ call.cx = call.x
             /\ call.cz = call.z
             /\ call.x = lastUpdateX - (GRID \div 2) + i
             /\ call.z = lastUpdateZ - (GRID \div 2) + j
    /\ ColumnCalls # <<>> =>
         /\ Ctx_x = lastUpdateX - (GRID \div 2) + GRID - 1
         /\ Ctx_z = lastUpdateZ - (GRID \div 2) + GRID - 1

\* A refresh on the centre (-1, 1) has run its GRID * GRID columns; Ctx holds
\* the coordinates of the last of them.
C16_Witness ==
    /\ Len(ColumnCalls) = GRID * GRID
    /\ lastUpdateX = -1
    /\ lastUpdateZ = 1
    /\ Ctx_x = GRID - 2 - (GRID \div 2)
    /\ ColumnCalls[1].cx = -1 - (GRID \div 2)

\* C18: in a refreshed column the layer 0 has the surface colour of the
\* biome, and every layer below has 0.85 times the under-colour, dirt under
\* grass and stone under every other biome, whatever its depth, the column
\* and the refreshes before.
C18_LayerColoring ==
    \A i \in 0..(GRID - 1), j \in 0..(GRID - 1) :
        LET top == instMesh[(i * GRID + j) * LAYERS]
            under == IF top.c = <<8600, 16300, 7600>> THEN <<12100, 8500, 7200>>
                     ELSE <<12800, 12800, 12800>>
        IN  top.set =>
              /\ top.c \in {<<5000, 11500, 16800>>, <<22200, 19400, 13800>>,
                            <<8600, 16300, 7600>>, <<12800, 12800, 12800>>,
                            <<25500, 25500, 25500>>, <<15600, 3900, 17600>>,
                            <<25500, 8700, 3400>>}
              /\ \A d \in 1..(LAYERS - 1) :
                   \A k \in 1..3 :
                       100 * instMesh[(i * GRID + j) * LAYERS + d].c[k] = 85 * under[k]

\* The terrain of 'One Block': grass on dirt at the centre column, sand on
\* stone beside it.
C18_Witness ==
    /\ inputValue = OneBlock
    /\ writes # <<>>
    /\ lastUpdateX = 0
    /\ lastUpdateZ = 0
    /\ instMesh[((GRID \div 2) * GRID + (GRID \div 2)) * LAYERS].c = colors.grass
    /\ instMesh[((GRID \div 2) * GRID + (GRID \div 2)) * LAYERS + LAYERS - 1].c
          = <<10285, 7225, 6120>>
    /\ instMesh[LAYERS - 1].c = <<10880, 10880, 10880>>

\* C19: for every integer x and every integer y > 0, Ctx.mod(x, y) is the r
\* with 0 <= r < y and x - r divisible by y.
C19_CorrectedModulo ==
    inputValue = ModXZ =>
        /\ compiledFunc # NULL
        /\ \A n \in DOMAIN calls :
             (calls[n].site = "direct" /\ calls[n].z > 0) =>
                 LET r == calls[n].out
                 IN  /\ r.t = "num"
                     /\ r.d = 1
                     /\ 0 <= r.n
                     /\ r.n < calls[n].z
                     /\ (calls[n].x - r.n) % calls[n].z = 0

\* mod(-3, 2) has returned 1.
C19_Witness ==
    /\ inputValue = ModXZ
    /\ calls # <<>>
    /\ calls[1].site = "direct"
    /\ calls[1].x = -3
    /\ calls[1].z = 2
    /\ calls[1].out = IntVal(1)


\* The calls of genExpr in progress carry decreasing budgets: the outermost
\* the budget it was started with, every other one the budget of its caller
\* less one; a call whose budget is not positive makes no call; the calls
\* nest at most budget + 1 deep; and one outer call makes at most
\* 2^(budget + 1) - 1 calls in all.
BudgetDiscipline ==
    /\ gen.stack # <<>> => gen.stack[1].depth = gen.budget
    /\ \A k \in 2..Len(gen.stack) : gen.stack[k].depth = gen.stack[k - 1].depth - 1
    /\ \A k \in DOMAIN gen.stack :
           gen.stack[k].depth <= 0 =>
               /\ gen.stack[k].need = 0
               /\ k = Len(gen.stack)
    /\ Len(gen.stack) <= gen.budget + 1
    /\ gen.count <= 2 ^ (gen.budget + 1) - 1

\* C12: genExpr(d) returns after finitely many recursive calls: every
\* recursive call is made with the budget d - 1 of its caller's d, a call
\* whose budget is not positive makes none, the recursion is never deeper
\* than d, at most 2^(d + 1) - 1 calls are made, and a call that has started
\* returns.
C12_GenExprTerminates ==
    /\ []BudgetDiscipline
    /\ (gen.pc = "running") ~> (gen.pc = "returned")

\* A call with the largest budget has returned a full binary expression:
\* every call but the deepest ones took the binary branch.
C12_Witness ==
    /\ gen.pc = "returned"
    /\ gen.budget = MaxDepth
    /\ gen.count = 2 ^ (MaxDepth + 1) - 1
    /\ gen.out[1] = "("


\* An unsigned 32-bit number as the pair of its 16-bit halves, the upper
\* first: that of the two's complement of the integer a, the exclusive or
\* of two, and the product of one by 0x01000193 = 2^24 + 403 modulo 2^32.
HalvesOf(a) == <<(a \div 65536) % 65536, a % 65536>>

RECURSIVE XorHalf(_, _, _)
XorHalf(m, n, k) ==
    IF k = 0 THEN 0
    ELSE (IF m % 2 = n % 2 THEN 0 ELSE 1) + 2 * XorHalf(m \div 2, n \div 2, k - 1)

XorHalves(u, v) == <<XorHalf(u[1], v[1], 16), XorHalf(u[2], v[2], 16)>>

TimesPrime(u) ==
    <<(u[1] * 403 + ((u[2] * 403) \div 65536) + (u[2] % 256) * 256) % 65536,
      (u[2] * 403) % 65536>>

\* u = ((((0x811c9dc5 XOR a) * 0x01000193) mod 2^32) XOR b) * 0x01000193
\* mod 2^32, with 0x811c9dc5 = 33052 * 2^16 + 40389.
HashHalves(a, b) ==
    TimesPrime(XorHalves(TimesPrime(XorHalves(<<33052, 40389>>, HalvesOf(a))),
                         HalvesOf(b)))

\* C14: Hash.intHash(a, b) is u / 2^32 for the unsigned 32-bit u that the
\* two rounds of XOR and multiplication by 0x01000193 give from 0x811c9dc5,
\* whatever the permutation table and the calls made before, so that
\* 0 <= result < 1: the result is (hi * 2^16 + lo) / 2^32 for the two
\* 16-bit halves hi and lo of u.
C14_HashValue ==
    returned.fn = "intHash" =>
        /\ returned.out.hi = HashHalves(returned.args[1], returned.args[2])[1]
        /\ returned.out.lo = HashHalves(returned.args[1], returned.args[2])[2]
        /\ returned.out.hi \in 0..65535
        /\ returned.out.lo \in 0..65535
        /\ returned.out = intHash(returned.args[1], returned.args[2])

\* intHash has returned a number of the upper half of [0, 1), where the
\* 32-bit integer h is negative, on the two ends of the 32-bit range, and
\* the table has been shuffled since the script loaded.
C14_Witness ==
    /\ returned.fn = "intHash"
    /\ returned.args = <<-2147483647 - 1, 2147483647>>
    /\ returned.out.hi >= 32768
    /\ perm[0] # 0

\* C15: a call Ctx.octaved(x, z, 1, p) returns Noise.simplex(x, z) under the
\* table that Noise.perm holds during the call, for every persistence p, 0
\* and none included.
C15_SingleOctave ==
    [][(returned' # returned /\ returned'.fn = "octaved"
            /\ returned'.args[3] = IntVal(1)) =>
           returned'.out = simplex(returned'.args[1], returned'.args[2], perm)]_vars

\* octaved has returned a noise value that is not 0 for one octave and the
\* persistence 0.
C15_Witness ==
    /\ returned.fn = "octaved"
    /\ returned.args[3] = IntVal(1)
    /\ Len(returned.args) = 4
    /\ returned.args[4] = IntVal(0)
    /\ returned.out.t = "num"
    /\ returned.out.n # 0

\* C17: after Noise.seed() the first half of perm holds every index once,
\* the second half repeats the first, and the table is produced by as many
\* sequences of draws as every other permutation: the number of sequences
\* of draws divided by the number of permutations.
C17_UniformPermutation ==
    LET half == 0..(PermSize - 1)
        Factorial[n \in 0..PermSize] == IF n = 0 THEN 1 ELSE n * Factorial[n - 1]
    IN  /\ \A v \in half : Cardinality({i \in half : perm[i] = v}) = 1
        /\ \A i \in half : perm[i + PermSize] = perm[i]
        /\ Cardinality({draws \in Draws : seed(draws) = perm}) * Factorial[PermSize]
               = Cardinality(Draws)


\* The instances that updateTerrain(true) writes from the installed function
\* and the table that Noise.perm holds now, around the recorded centre.
RefreshedNow ==
    updateTerrain(TRUE, compiledFunc, <<2 * lastUpdateX, 2 * lastUpdateZ>>,
                  Host(innerWidth, perm), TerrainNow).instMesh

\* C20: whenever no handler runs and a function is installed, the instances
\* displayed are those that a full refresh would write from the installed
\* function and the current permutation table around (lastUpdateX,
\* lastUpdateZ).
C20_DisplayedConsistent ==
    (pc = "idle" /\ compiledFunc # NULL) => instMesh = RefreshedNow

\* A number that is an integer from lo to hi.
IsIndex(v, lo, hi) == v.t = "num" /\ v.d = 1 /\ v.n \in lo..hi

\* C21: every index that a call of Noise.simplex reads Noise.perm at (jj,
\* ii + perm[jj], jj + j1, ii + i1 + perm[jj + j1], jj + 1 and
\* ii + 1 + perm[jj + 1]) is an index of the table, whose entries are twice
\* those of p, and each of gi0, gi1 and gi2 is an index of Noise.grad3, on
\* every lattice cell, the negative ones included, and every table that
\* Noise.seed leaves.
C21_TableAccessInBounds ==
    returned.fn = "simplex" =>
        /\ Len(returned.reads.perm) = 6
        /\ \A k \in 1..6 :
               IsIndex(returned.reads.perm[k], 0, Cardinality(DOMAIN perm) - 1)
        /\ Len(returned.reads.gi) = 3
        /\ \A k \in 1..3 : IsIndex(returned.reads.gi[k], 0, Len(grad3) - 1)
        /\ returned.out.t = "num"

\* Noise.simplex has been called on a point of a negative lattice cell, has
\* read the second half of the table, up to its last entry, and an entry
\* above the number of gradients, which the remainder by 12 brought back
\* into Noise.grad3.
C21_Witness ==
    /\ returned.fn = "simplex"
    /\ returned.args[1].n < 0
    /\ returned.args[2].n < 0
    /\ \E k \in 1..6 : returned.reads.perm[k].n = Cardinality(DOMAIN perm) - 1
    /\ \E k \in 1..3 :
           /\ perm[returned.reads.perm[2 * k].n] >= Len(grad3)
           /\ returned.reads.gi[k].n = perm[returned.reads.perm[2 * k].n] - Len(grad3)

====
